---- MODULE Spec2Model ----
(***************************************************************************)
(* LokiTableMetadataStore (src/table/persistence/LokiTableMetadataStore.ts) *)
(* as a state machine: the table registry, the per-table entity            *)
(* collections held by LokiJS, the two batch undo logs, and one action per  *)
(* public method of the store.                                              *)
(*                                                                         *)
(* LokiJS keeps documents by reference: insert() stamps the object it is    *)
(* given with a fresh $loki id, remove() deletes the $loki of the object it *)
(* is given, and the undo logs keep references to those same objects.  The  *)
(* model therefore keeps a heap of objects; collections and logs hold heap  *)
(* cells.                                                                   *)
(***************************************************************************)
EXTENDS Integers, Sequences, FiniteSets, TLC

VARIABLES
  tablesCollection,                   \* $TABLES_COLLECTION$: the data array of Table records
  db,                                 \* the other Loki collections, by name
  heap,                               \* the entity objects, by cell
  servicesCollection,                 \* $SERVICES_COLLECTION$: the service property records
  closed,                             \* the field closed
  transactionRollbackTheseEntities,   \* undo log: pre-images (cells)
  transactionDeleteTheseEntities,     \* undo log: entities inserted in the batch (cells)
  last,                               \* the last call made to the store and its outcome
  batch,                              \* history: the batch being observed
  active,                             \* history: batches begun and not yet ended
  lifecycle,                          \* history: what last happened to each (account, table)
  awaiting                            \* the upsert calls suspended at their await, oldest first

vars == <<tablesCollection, db, heap, servicesCollection, closed,
          transactionRollbackTheseEntities, transactionDeleteTheseEntities,
          last, batch, active, lifecycle, awaiting>>

----------------------------------------------------------------------------
(* Bounds and input sets *)

MaxLog == 2            \* the entries the two undo logs may hold together (see Offered)
MaxAwaiting == 2       \* the upsert calls that may be suspended at one time

Undefined == "undefined"     \* an absent optional string argument
None == <<>>                 \* an absent optional character-sequence argument
Some(x) == <<x>>

\* Account and table names.  The store takes any string; "$" is the separator
\* getTableCollectionName puts between them.
Accounts == {"a", "a$b"}
Tables == {"c", "b$c", "d"}
\* The table names that, with the two accounts, give the collection name
\* "a$b$c" in two ways.
PairedTables == {"c", "b$c"}

\* Key names, in the order used to name heap cells, and the keys most
\* specifications draw from.  "<D800>" names the one-character string whose
\* only UTF-16 code unit is the surrogate U+D800 (see KeyText).
PartitionKeyOrder == <<"p", "q">>
RowKeyOrder == <<"r1", "r2", "1L", "<D800>">>
PartitionKeys == {"p"}
RowKeys == {"r1", "r2"}
Times == {1, 2}              \* lastModifiedTime values supplied by callers
BatchIds == {"b1", "b2"}

ODATA_TYPE == "@odata.type"
EmptyProps == [k \in {} |-> ""]
\* The user properties a caller supplies with an entity.
InputProperties == {EmptyProps, [k \in {"x"} |-> "v"]}

\* ETags are character sequences; the caller derives an entity's eTag from the
\* time of the request.
Star == <<"*">>
NewETag(t) == <<"W", ":", ToString(t), ":", "0">>

InputEntities(PKs, RKs, Ts, Ps) ==
  { [PartitionKey |-> pk, RowKey |-> rk, properties |-> p,
     lastModifiedTime |-> t, eTag |-> NewETag(t)] :
       pk \in PKs, rk \in RKs, t \in Ts, p \in Ps }

----------------------------------------------------------------------------
(* The heap of entity objects *)

getTableCollectionName(account, table) == account \o "$" \o table

CollNames == { getTableCollectionName(a, t) : a \in Accounts, t \in Tables }
CollNameOrder == <<"a$c", "a$b$c", "a$b$b$c", "a$d", "a$b$d">>

Null == 0               \* findOne's null / a missing document

\* The heap is the sequence of the objects in use; a cell is a position in it.
\* loki = 0: the object carries no $loki property.
NewObject(entity) ==
  [PartitionKey |-> entity.PartitionKey, RowKey |-> entity.RowKey,
   properties |-> entity.properties, lastModifiedTime |-> entity.lastModifiedTime,
   eTag |-> entity.eTag, loki |-> 0, home |-> ""]

\* The fields of an Entity, without LokiJS's bookkeeping.
EntityOf(o) ==
  [PartitionKey |-> o.PartitionKey, RowKey |-> o.RowKey, properties |-> o.properties,
   lastModifiedTime |-> o.lastModifiedTime, eTag |-> o.eTag]

NoCollection == [exists |-> FALSE, data |-> {}]
NewCollection == [exists |-> TRUE, data |-> {}]

\* A handler runs on a record s of the store's fields; err names the error it
\* has thrown ("" while it runs normally), ret what it returns.
Throw(s, e) == [s EXCEPT !.err = e]

Min(S) == CHOOSE x \in S : \A y \in S : x <= y

\* A new object: the cell it gets, and the store with it.
NewCell(s) == Len(s.heap) + 1
WithObject(s, obj) == [s EXCEPT !.heap = Append(@, obj)]

\* A $loki id no object holds.  LokiJS numbers the documents of a collection
\* 1, 2, 3, ... and never reuses a number; only equality of ids is ever used,
\* so the model hands out the least id no object in use carries.
FreshId(h) == Min({ i \in 1..(Len(h) + 1) : \A c \in DOMAIN h : h[c].loki # i })

\* Cells and $loki ids are names: which cell holds an object and which number
\* a document carries are never observed, only whether two references are the
\* same object and whether two ids are equal.  After each call the objects
\* still referred to are renamed in a fixed order (the collections by name and
\* key, then the two logs), and the others are dropped as garbage.
IndexOf(seq, x) == Min({ i \in 1..Len(seq) : seq[i] = x })

SetToSeq(S, Before(_, _)) ==
  [i \in 1..Cardinality(S) |->
     CHOOSE x \in S : Cardinality({ y \in S : Before(y, x) }) = i - 1]

RECURSIVE Flatten(_)
Flatten(seqs) == IF seqs = <<>> THEN <<>> ELSE Head(seqs) \o Flatten(Tail(seqs))

FirstOccurrences(seq) ==
  LET keep == { i \in 1..Len(seq) : \A j \in 1..(i - 1) : seq[j] # seq[i] }
  IN [k \in 1..Cardinality(keep) |->
        seq[CHOOSE i \in keep : Cardinality({ j \in keep : j < i }) = k - 1]]

KeyRank(o) ==
  (IndexOf(PartitionKeyOrder, o.PartitionKey) - 1) * Len(RowKeyOrder)
    + IndexOf(RowKeyOrder, o.RowKey)

CellOrder(s) ==
  LET Before(c, d) == \/ KeyRank(s.heap[c]) < KeyRank(s.heap[d])
                      \/ KeyRank(s.heap[c]) = KeyRank(s.heap[d]) /\ c < d
  IN FirstOccurrences(
       Flatten([i \in 1..Len(CollNameOrder) |->
                  SetToSeq(s.db[CollNameOrder[i]].data, Before)])
         \o s.rollback \o s.delete)

Collect(s) ==
  LET order == CellOrder(s)
      ids == FirstOccurrences(
               SelectSeq([i \in 1..Len(order) |-> s.heap[order[i]].loki],
                         LAMBDA n : n > 0))
      Cell(c) == IndexOf(order, c)
      Object(c) == [s.heap[c] EXCEPT !.loki = IF @ > 0 THEN IndexOf(ids, @) ELSE @]
  IN [s EXCEPT
        !.heap = [c \in 1..Len(order) |-> Object(order[c])],
        !.db = [n \in CollNames |-> [s.db[n] EXCEPT !.data = { Cell(c) : c \in @ }]],
        !.rollback = [i \in 1..Len(s.rollback) |-> Cell(s.rollback[i])],
        !.delete = [i \in 1..Len(s.delete) |-> Cell(s.delete[i])]]

----------------------------------------------------------------------------
(* LokiJS collection operations used by the store *)

\* collection.findOne({PartitionKey, RowKey})
findOne(s, name, partitionKey, rowKey) ==
  LET hits == { c \in s.db[name].data :
                  /\ s.heap[c].PartitionKey = partitionKey
                  /\ s.heap[c].RowKey = rowKey }
  IN IF hits = {} THEN Null ELSE Min(hits)

\* collection.insert(obj): obj itself becomes the stored document.
LokiInsert(s, name, c) ==
  IF s.heap[c].loki # 0
  THEN Throw(s, "Document is already in collection")
  ELSE [s EXCEPT !.heap[c].loki = FreshId(s.heap),
                 !.heap[c].home = name,
                 !.db[name].data = @ \cup {c}]

\* collection.remove(obj): removes the document whose $loki is obj.$loki and
\* deletes obj.$loki; without a $loki it throws, with an unknown one it logs
\* the error and returns null.
LokiRemoveHit(s, name, c, d) ==
  [s EXCEPT !.db[name].data = @ \ {d}, !.heap[c].loki = 0, !.heap[c].home = ""]

LokiRemove(s, name, c) ==
  IF s.heap[c].loki = 0
  THEN Throw(s, "Object is not a document stored in the collection")
  ELSE LET hits == { d \in s.db[name].data : s.heap[d].loki = s.heap[c].loki }
       IN IF hits = {} THEN s ELSE LokiRemoveHit(s, name, c, Min(hits))

\* collection.update(obj): obj replaces the document with its $loki.
LokiUpdate(s, name, c) ==
  LET hits == { d \in s.db[name].data : s.heap[d].loki = s.heap[c].loki }
  IN IF s.heap[c].loki = 0 \/ hits = {}
     THEN Throw(s, "Trying to update unsynced document")
     ELSE [s EXCEPT !.db[name].data = (@ \ hits) \cup {c}]

\* db.removeCollection(name): the documents keep the $loki the dropped
\* collection gave them.
removeCollection(s, name) ==
  [s EXCEPT !.db[name] = NoCollection,
            !.heap = [c \in DOMAIN s.heap |->
                        IF s.heap[c].home = name
                        THEN [s.heap[c] EXCEPT !.home = "dropped"]
                        ELSE s.heap[c]]]

addCollection(s, name) == [s EXCEPT !.db[name] = NewCollection]

----------------------------------------------------------------------------
(* The table registry *)

\* $TABLES_COLLECTION$ holds Table records {account, table}; records of the
\* same (account, table) are alike, so the collection is kept as the number of
\* records it holds for each pair.
TableRecord(account, table) == [account |-> account, table |-> table]
NoTables == [p \in Accounts \X Tables |-> 0]

\* coll.findOne({account, table}) on $TABLES_COLLECTION$.
findTable(tables, account, table) ==
  IF tables[<<account, table>>] > 0 THEN <<TableRecord(account, table)>> ELSE <<>>

\* coll.insert(tableModel) and coll.remove(doc) on $TABLES_COLLECTION$.
InsertTable(tables, account, table) == [tables EXCEPT ![<<account, table>>] = @ + 1]
RemoveTable(tables, account, table) == [tables EXCEPT ![<<account, table>>] = @ - 1]

\* createTable without the test for a record of the same (account, table).
createTable_NoExistsCheck(s, account, table) ==
  LET s1 == [s EXCEPT !.tables = InsertTable(@, account, table)]
      tableCollectionName == getTableCollectionName(account, table)
      s2 == IF s1.db[tableCollectionName].exists
            THEN removeCollection(s1, tableCollectionName)
            ELSE s1
  IN addCollection(s2, tableCollectionName)

\* createTable keeping a collection that is there under the name.
createTable_KeepCollection(s, account, table) ==
  IF findTable(s.tables, account, table) # <<>>
  THEN Throw(s, "TableAlreadyExists")
  ELSE
    LET s1 == [s EXCEPT !.tables = InsertTable(@, account, table)]
        tableCollectionName == getTableCollectionName(account, table)
    IN IF s1.db[tableCollectionName].exists THEN s1
       ELSE addCollection(s1, tableCollectionName)

createTable(s, account, table) ==
  IF findTable(s.tables, account, table) # <<>>
  THEN Throw(s, "TableAlreadyExists")
  ELSE
    LET s1 == [s EXCEPT !.tables = InsertTable(@, account, table)]
        tableCollectionName == getTableCollectionName(account, table)
        s2 == IF s1.db[tableCollectionName].exists
              THEN removeCollection(s1, tableCollectionName)
              ELSE s1
    IN addCollection(s2, tableCollectionName)

deleteTable(s, table, account) ==
  LET doc == findTable(s.tables, account, table)
  IN IF doc = <<>>
     THEN Throw(s, "ResourceNotFound")
     ELSE
       LET s1 == [s EXCEPT !.tables = RemoveTable(@, account, table)]
           tableCollectionName == getTableCollectionName(account, table)
       IN IF s1.db[tableCollectionName].exists
          THEN removeCollection(s1, tableCollectionName)
          ELSE s1

getTable(s, account, table) ==
  LET doc == findTable(s.tables, account, table)
  IN IF doc = <<>>
     THEN Throw(s, "TableNotFound")
     ELSE [s EXCEPT !.ret = doc]

----------------------------------------------------------------------------
(* Entity properties, timestamps and ETags *)

\* utils.getTimestampString: the text form of a time (an ISO date with seven
\* fractional digits).
getTimestampString(t) == "1970-01-01T00:00:0" \o ToString(t) \o ".0000000Z"

SetProp(p, k, v) == [x \in (DOMAIN p) \cup {k} |-> IF x = k THEN v ELSE p[x]]

\* entity.properties.Timestamp = getTimestampString(entity.lastModifiedTime);
\* entity.properties["Timestamp@odata.type"] = "Edm.DateTime";
StampTimestamp(entity) ==
  [entity EXCEPT !.properties =
     SetProp(SetProp(@, "Timestamp", getTimestampString(entity.lastModifiedTime)),
             "Timestamp" \o ODATA_TYPE, "Edm.DateTime")]

\* The property names of the model that are not type tags.
BaseNames == {"x", "y", "Timestamp"}
\* key.endsWith(ODATA_TYPE)
EndsWithODataType(key) == \E b \in BaseNames : key = b \o ODATA_TYPE

\* s.replace(":", "%3A"): the first ":" only.
ReplaceColon(str) ==
  LET at == { i \in 1..Len(str) : str[i] = ":" }
  IN IF at = {} THEN str
     ELSE SubSeq(str, 1, Min(at) - 1) \o <<"%", "3", "A">>
            \o SubSeq(str, Min(at) + 1, Len(str))

\* x.replace(":", "%3A").replace(":", "%3A")
EncodeColons(str) == ReplaceColon(ReplaceColon(str))

\* The test of updateTableEntity and mergeTableEntity on ifMatch.
ETagMatches(eTag, ifMatch) ==
  \/ ifMatch = None
  \/ EncodeColons(ifMatch[1]) = Star
  \/ EncodeColons(eTag) = EncodeColons(ifMatch[1])

\* The inner-property merge without the removal of a stored type tag.
MergeProperties_KeepTags(docProps, entityProps) ==
  LET keys == { k \in DOMAIN entityProps : ~EndsWithODataType(k) }
      tagSet == { k \o ODATA_TYPE : k \in { j \in keys : (j \o ODATA_TYPE) \in DOMAIN entityProps } }
      dom == ((DOMAIN docProps) \cup keys) \cup tagSet
  IN [k \in dom |-> IF k \in keys \cup tagSet THEN entityProps[k] ELSE docProps[k]]

\* The inner-property merge of mergeTableEntity.
MergeProperties(docProps, entityProps) ==
  LET keys == { k \in DOMAIN entityProps : ~EndsWithODataType(k) }
      tagSet == { k \o ODATA_TYPE : k \in { j \in keys : (j \o ODATA_TYPE) \in DOMAIN entityProps } }
      tagDel == { k \o ODATA_TYPE : k \in keys } \ tagSet
      dom == (((DOMAIN docProps) \cup keys) \ tagDel) \cup tagSet
  IN [k \in dom |-> IF k \in keys \cup tagSet THEN entityProps[k] ELSE docProps[k]]

----------------------------------------------------------------------------
(* Entity operations *)

InBatch(batchId) == batchId # "" /\ batchId # Undefined

\* insertTableEntity without the test for a document of the same key.
insertTableEntity_NoDuplicateCheck(s, table, account, entity, batchId) ==
  LET name == getTableCollectionName(account, table)
  IN IF findTable(s.tables, account, table) = <<>> THEN Throw(s, "TableNotExist")
     ELSE IF ~s.db[name].exists THEN Throw(s, "TableNotExist")
     ELSE
       LET c == NewCell(s)
           s1 == WithObject(s, NewObject(StampTimestamp(entity)))
           s2 == IF InBatch(batchId)
                 THEN [s1 EXCEPT !.delete = Append(@, c)]
                 ELSE s1
       IN [LokiInsert(s2, name, c) EXCEPT !.ret = <<c>>, !.path = "insert"]

insertTableEntity(s, table, account, entity, batchId) ==
  LET name == getTableCollectionName(account, table)
  IN IF findTable(s.tables, account, table) = <<>> THEN Throw(s, "TableNotExist")
     ELSE IF ~s.db[name].exists THEN Throw(s, "TableNotExist")
     ELSE IF findOne(s, name, entity.PartitionKey, entity.RowKey) # Null
          THEN Throw(s, "EntityAlreadyExist")
     ELSE
       LET c == NewCell(s)
           s1 == WithObject(s, NewObject(StampTimestamp(entity)))
           s2 == IF InBatch(batchId)
                 THEN [s1 EXCEPT !.delete = Append(@, c)]
                 ELSE s1
       IN [LokiInsert(s2, name, c) EXCEPT !.ret = <<c>>, !.path = "insert"]

updateTableEntity(s, table, account, entity, ifMatch, batchId) ==
  LET name == getTableCollectionName(account, table)
  IN IF findTable(s.tables, account, table) = <<>> THEN Throw(s, "TableNotExist")
     ELSE IF ~s.db[name].exists THEN Throw(s, "TableNotExist")
     ELSE
       LET doc == findOne(s, name, entity.PartitionKey, entity.RowKey)
       IN IF doc = Null THEN Throw(s, "EntityNotFound")
          ELSE
            LET s1 == IF batchId # ""
                      THEN [s EXCEPT !.rollback = Append(@, doc)]
                      ELSE s
            IN IF ETagMatches(s.heap[doc].eTag, ifMatch)
               THEN
                 LET s2 == LokiRemove(s1, name, doc)
                     c == NewCell(s2)
                     s3 == WithObject(s2, NewObject(StampTimestamp(entity)))
                 IN IF s2.err # "" THEN s2
                    ELSE [LokiInsert(s3, name, c) EXCEPT !.ret = <<c>>, !.path = "update"]
               ELSE Throw(s1, "PreconditionFailed")

mergeTableEntity(s, table, account, entity, ifMatch, batchId) ==
  LET name == getTableCollectionName(account, table)
  IN IF findTable(s.tables, account, table) = <<>> THEN Throw(s, "TableNotExist")
     ELSE IF ~s.db[name].exists THEN Throw(s, "TableNotExist")
     ELSE
       LET doc == findOne(s, name, entity.PartitionKey, entity.RowKey)
       IN IF doc = Null THEN Throw(s, "EntityNotFound")
          ELSE
            LET s1 == IF batchId # ""
                      THEN [s EXCEPT !.rollback = Append(@, doc)]
                      ELSE s
            IN IF ETagMatches(s.heap[doc].eTag, ifMatch)
               THEN
                 LET c == NewCell(s1)
                     \* { ...doc, ...entity, properties: { ...doc.properties } }
                     mergedDEntity ==
                       [PartitionKey |-> entity.PartitionKey,
                        RowKey |-> entity.RowKey,
                        properties |-> MergeProperties(s.heap[doc].properties,
                                                       entity.properties),
                        lastModifiedTime |-> entity.lastModifiedTime,
                        eTag |-> entity.eTag,
                        loki |-> s.heap[doc].loki,
                        home |-> s.heap[doc].home]
                     s2 == WithObject(s1, mergedDEntity)
                 IN [LokiUpdate(s2, name, c) EXCEPT !.ret = <<c>>, !.path = "merge"]
               ELSE Throw(s1, "PreconditionFailed")

\* deleteTableEntity comparing the ETags as updateTableEntity does, after
\* encoding their colons.
deleteTableEntity_EncodedCompare(s, table, account, partitionKey, rowKey, etag, batchId) ==
  LET name == getTableCollectionName(account, table)
  IN IF findTable(s.tables, account, table) = <<>> THEN Throw(s, "TableNotExist")
     ELSE IF ~s.db[name].exists THEN Throw(s, "TableNotExist")
     ELSE IF partitionKey = Undefined \/ rowKey = Undefined
          THEN Throw(s, "PropertiesNeedValue")
     ELSE
       LET doc == findOne(s, name, partitionKey, rowKey)
       IN IF doc = Null THEN Throw(s, "EntityNotFound")
          ELSE IF ~ETagMatches(s.heap[doc].eTag, Some(etag))
               THEN Throw(s, "PreconditionFailed")
          ELSE
            LET s1 == IF batchId # ""
                      THEN [s EXCEPT !.rollback = Append(@, doc)]
                      ELSE s
            IN [LokiRemove(s1, name, doc) EXCEPT !.path = "delete"]

deleteTableEntity(s, table, account, partitionKey, rowKey, etag, batchId) ==
  LET name == getTableCollectionName(account, table)
  IN IF findTable(s.tables, account, table) = <<>> THEN Throw(s, "TableNotExist")
     ELSE IF ~s.db[name].exists THEN Throw(s, "TableNotExist")
     ELSE IF partitionKey = Undefined \/ rowKey = Undefined
          THEN Throw(s, "PropertiesNeedValue")
     ELSE
       LET doc == findOne(s, name, partitionKey, rowKey)
       IN IF doc = Null THEN Throw(s, "EntityNotFound")
          ELSE IF etag # Star /\ s.heap[doc].eTag # etag
               THEN Throw(s, "PreconditionFailed")
          ELSE
            LET s1 == IF batchId # ""
                      THEN [s EXCEPT !.rollback = Append(@, doc)]
                      ELSE s
            IN [LokiRemove(s1, name, doc) EXCEPT !.path = "delete"]

queryTableEntitiesWithPartitionAndRowKey(s, table, account, partitionKey, rowKey) ==
  LET name == getTableCollectionName(account, table)
  IN IF ~s.db[name].exists THEN Throw(s, "TableNotExist")
     ELSE
       LET requestedDoc == findOne(s, name, partitionKey, rowKey)
       IN [s EXCEPT !.ret = IF requestedDoc = Null THEN <<>> ELSE <<requestedDoc>>]

\* The upserts: the probe and the call it selects, taken as one step.
insertOrUpdateTableEntity(s, table, account, entity, ifMatch, batchId) ==
  IF ifMatch = None \/ ifMatch = Some(Star)
  THEN
    LET probe == queryTableEntitiesWithPartitionAndRowKey(
                   s, table, account, entity.PartitionKey, entity.RowKey)
    IN IF probe.err # "" THEN probe
       ELSE IF probe.ret # <<>>
            THEN updateTableEntity(s, table, account, entity, ifMatch, batchId)
            ELSE insertTableEntity(s, table, account, entity, batchId)
  ELSE updateTableEntity(s, table, account, entity, ifMatch, batchId)

insertOrMergeTableEntity(s, table, account, entity, ifMatch, batchId) ==
  IF ifMatch = None \/ ifMatch = Some(Star)
  THEN
    LET probe == queryTableEntitiesWithPartitionAndRowKey(
                   s, table, account, entity.PartitionKey, entity.RowKey)
    IN IF probe.err # "" THEN probe
       ELSE IF probe.ret # <<>>
            THEN mergeTableEntity(s, table, account, entity, ifMatch, batchId)
            ELSE insertTableEntity(s, table, account, entity, batchId)
  ELSE mergeTableEntity(s, table, account, entity, ifMatch, batchId)

----------------------------------------------------------------------------
(* Strings: UTF-16 code units, UTF-8 and base64, as Buffer converts them *)

\* The characters that occur in keys and table names, with their code units.
CodeUnit ==
  [ch \in {"$", "1", "2", "L", "a", "b", "c", "d", "p", "q", "r", "<D800>"} |->
     CASE ch = "$" -> 36 [] ch = "1" -> 49 [] ch = "2" -> 50 [] ch = "L" -> 76
       [] ch = "a" -> 97 [] ch = "b" -> 98 [] ch = "c" -> 99 [] ch = "d" -> 100
       [] ch = "p" -> 112 [] ch = "q" -> 113 [] ch = "r" -> 114
       [] ch = "<D800>" -> 55296]

\* The characters of each key and name, and of the fields a filter reads.
KeyText ==
  [k \in {"p", "q", "r1", "r2", "1L", "<D800>", "a", "a$b", "c", "b$c", "d",
          "PartitionKey", "RowKey", "table"} |->
     CASE k = "r1" -> <<"r", "1">> [] k = "r2" -> <<"r", "2">>
       [] k = "1L" -> <<"1", "L">> [] k = "a$b" -> <<"a", "$", "b">>
       [] k = "b$c" -> <<"b", "$", "c">>
       [] k = "PartitionKey" -> <<"P", "a", "r", "t", "i", "t", "i", "o", "n", "K", "e", "y">>
       [] k = "RowKey" -> <<"R", "o", "w", "K", "e", "y">>
       [] k = "table" -> <<"t", "a", "b", "l", "e">>
       [] OTHER -> <<k>>]

Units(k) == [i \in 1..Len(KeyText[k]) |-> CodeUnit[KeyText[k][i]]]

\* JavaScript's < on strings: by code unit, a proper prefix first.
RECURSIVE Less(_, _)
Less(u, v) ==
  IF v = <<>> THEN FALSE
  ELSE IF u = <<>> THEN TRUE
  ELSE IF u[1] # v[1] THEN u[1] < v[1]
  ELSE Less(Tail(u), Tail(v))

IsHighSurrogate(u) == u >= 55296 /\ u <= 56319
IsLowSurrogate(u) == u >= 56320 /\ u <= 57343

Utf8Of(cp) ==
  IF cp < 128 THEN <<cp>>
  ELSE IF cp < 2048 THEN <<192 + (cp \div 64), 128 + (cp % 64)>>
  ELSE IF cp < 65536
       THEN <<224 + (cp \div 4096), 128 + ((cp \div 64) % 64), 128 + (cp % 64)>>
  ELSE <<240 + (cp \div 262144), 128 + ((cp \div 4096) % 64),
         128 + ((cp \div 64) % 64), 128 + (cp % 64)>>

\* Buffer.from(string, "utf8"): a surrogate pair is one code point, a
\* surrogate without its pair is written as U+FFFD (EF BF BD).
RECURSIVE Utf8Encode(_)
Utf8Encode(u) ==
  IF u = <<>> THEN <<>>
  ELSE IF IsHighSurrogate(u[1]) /\ Len(u) > 1 /\ IsLowSurrogate(u[2])
       THEN Utf8Of(65536 + (u[1] - 55296) * 1024 + (u[2] - 56320))
              \o Utf8Encode(SubSeq(u, 3, Len(u)))
  ELSE IF IsHighSurrogate(u[1]) \/ IsLowSurrogate(u[1])
       THEN <<239, 191, 189>> \o Utf8Encode(Tail(u))
  ELSE Utf8Of(u[1]) \o Utf8Encode(Tail(u))

\* buffer.toString("utf8"), on the byte sequences Utf8Encode produces.
RECURSIVE Utf8Decode(_)
Utf8Decode(b) ==
  IF b = <<>> THEN <<>>
  ELSE IF b[1] < 128 THEN <<b[1]>> \o Utf8Decode(Tail(b))
  ELSE IF b[1] >= 192 /\ b[1] < 224 /\ Len(b) >= 2
       THEN <<(b[1] - 192) * 64 + (b[2] - 128)>> \o Utf8Decode(SubSeq(b, 3, Len(b)))
  ELSE IF b[1] >= 224 /\ b[1] < 240 /\ Len(b) >= 3
       THEN <<(b[1] - 224) * 4096 + (b[2] - 128) * 64 + (b[3] - 128)>>
              \o Utf8Decode(SubSeq(b, 4, Len(b)))
  ELSE IF b[1] >= 240 /\ Len(b) >= 4
       THEN LET cp == (b[1] - 240) * 262144 + (b[2] - 128) * 4096
                        + (b[3] - 128) * 64 + (b[4] - 128) - 65536
            IN <<55296 + (cp \div 1024), 56320 + (cp % 1024)>>
                 \o Utf8Decode(SubSeq(b, 5, Len(b)))
  ELSE <<65533>> \o Utf8Decode(Tail(b))

Base64Chars ==
  <<"A", "B", "C", "D", "E", "F", "G", "H", "I", "J", "K", "L", "M", "N", "O", "P",
    "Q", "R", "S", "T", "U", "V", "W", "X", "Y", "Z", "a", "b", "c", "d", "e", "f",
    "g", "h", "i", "j", "k", "l", "m", "n", "o", "p", "q", "r", "s", "t", "u", "v",
    "w", "x", "y", "z", "0", "1", "2", "3", "4", "5", "6", "7", "8", "9", "+", "/">>

\* buffer.toString("base64"): three bytes to four characters, "=" padding.
RECURSIVE Base64Encode(_)
Base64Encode(b) ==
  IF b = <<>> THEN <<>>
  ELSE
    LET n == IF Len(b) < 3 THEN Len(b) ELSE 3
        v == b[1] * 65536 + (IF n >= 2 THEN b[2] * 256 ELSE 0) + (IF n = 3 THEN b[3] ELSE 0)
    IN <<Base64Chars[(v \div 262144) + 1],
         Base64Chars[((v \div 4096) % 64) + 1],
         IF n >= 2 THEN Base64Chars[((v \div 64) % 64) + 1] ELSE "=",
         IF n = 3 THEN Base64Chars[(v % 64) + 1] ELSE "=">>
         \o Base64Encode(SubSeq(b, 4, Len(b)))

\* Buffer.from(text, "base64"): four characters to three bytes; the padding
\* is dropped and an incomplete last group gives the bytes it holds in full.
RECURSIVE Base64Bytes(_)
Base64Bytes(x) ==
  IF Len(x) < 2 THEN <<>>
  ELSE
    LET n == IF Len(x) < 4 THEN Len(x) ELSE 4
        v == x[1] * 262144 + x[2] * 4096 + (IF n >= 3 THEN x[3] * 64 ELSE 0)
               + (IF n = 4 THEN x[4] ELSE 0)
    IN <<v \div 65536>>
         \o (IF n >= 3 THEN <<(v \div 256) % 256>> ELSE <<>>)
         \o (IF n = 4 THEN <<v % 256>> ELSE <<>>)
         \o Base64Bytes(SubSeq(x, 5, Len(x)))

Base64Decode(text) ==
  LET digits == SelectSeq(text, LAMBDA ch : \E i \in 1..64 : Base64Chars[i] = ch)
  IN Base64Bytes([i \in 1..Len(digits) |-> IndexOf(Base64Chars, digits[i]) - 1])

\* Continuation headers: input is None or Some(string).
decodeContinuationHeader(input) ==
  IF input # None THEN Some(Utf8Decode(Base64Decode(input[1]))) ELSE None

encodeContinuationHeader(input) ==
  IF input # None THEN Some(Base64Encode(Utf8Encode(input[1]))) ELSE None

----------------------------------------------------------------------------
(* Filters: strings are sequences of one-character strings *)

Digits == {"0", "1", "2", "3", "4", "5", "6", "7", "8", "9"}
Letters ==
  {"a", "b", "c", "d", "e", "f", "g", "h", "i", "j", "k", "l", "m", "n", "o", "p", "q",
   "r", "s", "t", "u", "v", "w", "x", "y", "z", "A", "B", "C", "D", "E", "F", "G", "H",
   "I", "J", "K", "L", "M", "N", "O", "P", "Q", "R", "S", "T", "U", "V", "W", "X", "Y",
   "Z"}
WordChars == Digits \cup Letters \cup {"_"}           \* \w
Spaces == {" "}                                       \* \s, of the characters used
Backtick == "<backtick>"                              \* the character U+0060

\* \b before position k of t (positions from 1; Len(t) + 1 is the end).
Boundary(t, k) ==
  (k > 1 /\ t[k - 1] \in WordChars) # (k <= Len(t) /\ t[k] \in WordChars)

StartsWith(t, prefix) ==
  Len(t) >= Len(prefix) /\ SubSeq(t, 1, Len(prefix)) = prefix

\* The positions of the "L" of each match of /\b[0-9]*L\b/g in t, or of
\* /\b[0-9]+L\b/g when a digit is required: the digits before the "L" begin
\* at a word boundary and a word boundary follows it.
LongIntMatches(t, digitRequired) ==
  { m \in 1..Len(t) :
      /\ t[m] = "L"
      /\ Boundary(t, m + 1)
      /\ LET j == Min({ k \in 1..m : \A d \in k..(m - 1) : t[d] \in Digits })
         IN Boundary(t, j) /\ (digitRequired => j < m) }

\* token.match(/\b\d+/) is not null.
HasNumber(t) == \E k \in 1..Len(t) : t[k] \in Digits /\ Boundary(t, k)

\* t without the characters at the positions in drop.
Without(t, drop) ==
  LET keep == (1..Len(t)) \ drop
  IN [n \in 1..Cardinality(keep) |->
        t[CHOOSE k \in keep : Cardinality({ h \in keep : h < k }) = n - 1]]

\* replace(/L\b/g, "")
RemoveLongSuffix(t) ==
  Without(t, { k \in 1..Len(t) : t[k] = "L" /\ Boundary(t, k + 1) })

\* replace(/''/g, "'")
RECURSIVE UnescapeQuotes(_)
UnescapeQuotes(t) ==
  IF t = <<>> THEN <<>>
  ELSE IF Len(t) >= 2 /\ t[1] = "'" /\ t[2] = "'"
       THEN <<"'">> \o UnescapeQuotes(SubSeq(t, 3, Len(t)))
  ELSE <<t[1]>> \o UnescapeQuotes(Tail(t))

\* replace of each backtick by a backslash and the backtick
EscapeBackticks(t) ==
  Flatten([k \in 1..Len(t) |-> IF t[k] = Backtick THEN <<"\\", Backtick>> ELSE <<t[k]>>])

convertToken(token) ==
  CASE token = <<"T", "a", "b", "l", "e", "N", "a", "m", "e">> -> <<"n", "a", "m", "e">>
    [] token = <<"e", "q">> -> <<"=", "=", "=">>
    [] token = <<"g", "t">> -> <<">">>
    [] token = <<"g", "e">> -> <<">", "=">>
    [] token = <<"l", "t">> -> <<"<">>
    [] token = <<"l", "e">> -> <<"<", "=">>
    [] token = <<"n", "e">> -> <<"!", "=", "=">>
    [] token = <<"a", "n", "d">> -> <<"&", "&">>
    [] token = <<"o", "r">> -> <<"|", "|">>
    [] token = <<"n", "o", "t">> -> <<"!">>
    [] OTHER -> token

\* i and tokenStart count from 0, as in the source; query[i] there is
\* query[i + 1] here.  The result is the token list after the call; the call
\* leaves tokenStart = i + 1.
appendToken(query, i, tokenStart, inString, tokens) ==
  IF i - tokenStart > 0
  THEN
    LET raw == SubSeq(query, tokenStart + 1, i)
        token ==
          IF inString
          THEN
            LET unescaped == UnescapeQuotes(raw)
                stringStart == IndexOf(unescaped, "'") - 1
                typePrefix == SubSeq(unescaped, 1, stringStart)
                backtickString ==
                  <<Backtick>> \o SubSeq(unescaped, Len(typePrefix) + 2, Len(unescaped))
                    \o <<Backtick>>
            IN IF typePrefix = <<"g", "u", "i", "d">> THEN backtickString
               ELSE typePrefix \o backtickString
          ELSE convertToken(raw)
    IN IF token # <<>> THEN Append(tokens, token) ELSE tokens
  ELSE tokens

\* The loop of tokenizeQuery from position i on, and the appendToken after it.
RECURSIVE TokenizeFrom(_, _, _, _, _)
TokenizeFrom(query, i, tokenStart, inString, tokens) ==
  IF i >= Len(query) THEN appendToken(query, Len(query), tokenStart, inString, tokens)
  ELSE IF inString
  THEN IF i < Len(query) - 1 /\ query[i + 1] = "'" /\ query[i + 2] = "'"
       THEN TokenizeFrom(query, i + 2, tokenStart, TRUE, tokens)
       ELSE IF query[i + 1] = "'"
            THEN TokenizeFrom(query, i + 1, i + 1, FALSE,
                              appendToken(query, i, tokenStart, TRUE, tokens))
            ELSE TokenizeFrom(query, i + 1, tokenStart, TRUE, tokens)
  ELSE IF query[i + 1] \in {"(", ")"}
  THEN
    LET early ==
          \/ /\ i # 0
             /\ \/ query[i] \notin Spaces
                \/ i >= 5 /\ SubSeq(query, i - 4, i) = <<" ", "t", "r", "u", "e">>
                \/ i >= 6 /\ SubSeq(query, i - 5, i) = <<" ", "f", "a", "l", "s", "e">>
          \/ LongIntMatches(SubSeq(query, tokenStart + 1, i), TRUE) # {}
        tokens1 == IF early THEN appendToken(query, i, tokenStart, FALSE, tokens)
                   ELSE tokens
        tokenStart1 == IF early THEN i + 1 ELSE tokenStart
        tokens2 == appendToken(query, i - 1, tokenStart1, FALSE, tokens1)
    IN TokenizeFrom(query, i + 1, i + 1, FALSE, Append(tokens2, <<query[i + 1]>>))
  ELSE IF query[i + 1] \in Spaces
  THEN TokenizeFrom(query, i + 1, i + 1, FALSE,
                    appendToken(query, i, tokenStart, FALSE, tokens))
  ELSE IF query[i + 1] = "'"
  THEN TokenizeFrom(query, i + 1, tokenStart, TRUE, tokens)
  ELSE TokenizeFrom(query, i + 1, tokenStart, FALSE, tokens)

tokenizeQuery(originalQuery) ==
  TokenizeFrom(EscapeBackticks(originalQuery), 0, 0, FALSE, <<>>)

CompareOperators ==
  {<<"=", "=", "=">>, <<">">>, <<">", "=">>, <<"<">>, <<"<", "=">>, <<"!", "=", "=">>}
Operators == CompareOperators \cup {<<"&", "&">>, <<"|", "|">>, <<"!">>, <<"(">>, <<")">>}

\* replace(/\bdatetime\b/g, "")
RemoveDatetime(t) ==
  Without(t, UNION { k..(k + 7) : k \in
    { k \in 1..(Len(t) - 7) :
        /\ SubSeq(t, k, k + 7) = <<"d", "a", "t", "e", "t", "i", "m", "e">>
        /\ Boundary(t, k) /\ Boundary(t, k + 8) } })

\* The loop of transformQuery from tokens[counter] on (counter from 0, as in
\* the source).  code is the list of the pieces appended to "return ( ", each
\* followed by a space, before the closing ")".
RECURSIVE TransformFrom(_, _, _, _, _, _)
TransformFrom(tokens, counter, isOp, systemProperties, allowCustomProperties, pieces) ==
  IF counter > Len(tokens) - 1 THEN [thrown |-> FALSE, code |-> Some(pieces)]
  ELSE
    LET token == tokens[counter + 1]
        previousIsOp == isOp
        Emit(piece) ==
          TransformFrom(tokens, counter + 1, token \in CompareOperators,
                        systemProperties, allowCustomProperties, Append(pieces, piece))
        Fail == [thrown |-> TRUE, code |-> None]
    IN IF token = <<>>
       THEN TransformFrom(tokens, counter + 1, isOp, systemProperties,
                          allowCustomProperties, pieces)
       ELSE IF /\ ~HasNumber(token)
               /\ token # <<"t", "r", "u", "e">>
               /\ token # <<"f", "a", "l", "s", "e">>
               /\ \A k \in 1..Len(token) : token[k] # Backtick
               /\ token \notin Operators
       THEN IF token \in DOMAIN systemProperties
            THEN Emit(<<"i", "t", "e", "m", ".">> \o systemProperties[token])
            ELSE IF allowCustomProperties
            THEN IF /\ counter + 2 <= Len(tokens) - 1
                    /\ StartsWith(tokens[counter + 3], <<"d", "a", "t", "e", "t", "i", "m", "e">>)
                 THEN Emit(<<"n", "e", "w", " ", "D", "a", "t", "e", "(", "i", "t", "e", "m", ".", "p", "r", "o", "p", "e", "r", "t", "i", "e", "s", ".">> \o token \o <<")", ".", "g", "e", "t", "T", "i", "m", "e", "(", ")">>)
                 ELSE Emit(<<"i", "t", "e", "m", ".", "p", "r", "o", "p", "e", "r", "t", "i", "e", "s", ".">> \o token)
            ELSE Fail
       ELSE IF previousIsOp /\ Cardinality(LongIntMatches(token, FALSE)) = 1
            THEN Emit(<<"'">> \o RemoveLongSuffix(token) \o <<"'">>)
            ELSE IF previousIsOp /\ StartsWith(token, <<"d", "a", "t", "e", "t", "i", "m", "e">>)
            THEN Emit(<<"n", "e", "w", " ", "D", "a", "t", "e", "(">> \o RemoveDatetime(token) \o <<")", ".", "g", "e", "t", "T", "i", "m", "e", "(", ")">>)
            ELSE IF previousIsOp /\ (StartsWith(token, <<"X">>) \/ StartsWith(token, <<"b", "i", "n", "a", "r", "y">>))
            THEN Fail
            ELSE Emit(token)

transformQuery(query, systemProperties, allowCustomProperties) ==
  TransformFrom(tokenizeQuery(query), 0, FALSE, systemProperties,
                allowCustomProperties, <<>>)

\* transformTableQuery allowing custom properties.
transformTableQuery_AllowCustom(query) ==
  transformQuery(query, [t \in {<<"n", "a", "m", "e">>} |-> <<"t", "a", "b", "l", "e">>], TRUE)

transformTableQuery(query) ==
  transformQuery(query, [t \in {<<"n", "a", "m", "e">>} |-> <<"t", "a", "b", "l", "e">>], FALSE)

transformEntityQuery(query) ==
  transformQuery(query, [t \in {<<"P", "a", "r", "t", "i", "t", "i", "o", "n", "K", "e", "y">>, <<"R", "o", "w", "K", "e", "y">>} |-> t], TRUE)

\* new Function("item", code) and the call of the function it returns, for
\* code made of these pieces: comparison and logical operators, "!",
\* parentheses, and the operands below.  The filters the specifications draw
\* hold no backslash, backtick or "$".
IsPath(t) ==
  /\ t # <<>>
  /\ t[1] \in Letters \cup {"_", "$"}
  /\ \A k \in 1..Len(t) :
       /\ t[k] \in WordChars \cup {"$", "."}
       /\ t[k] = "." => k < Len(t) /\ t[k + 1] \notin Digits \cup {"."}

\* The position of the backtick that opens the template literal t, or 0.
TemplateStart(t) ==
  IF \E k \in 1..Len(t) : t[k] = Backtick THEN IndexOf(t, Backtick) ELSE 0

IsTemplate(t) ==
  LET k == TemplateStart(t)
  IN /\ k > 0 /\ k < Len(t) /\ t[Len(t)] = Backtick
     /\ k > 1 => IsPath(SubSeq(t, 1, k - 1))
     /\ \A h \in (k + 1)..(Len(t) - 1) : t[h] \notin {Backtick, "\\", "$"}

IsQuoted(t) ==
  /\ Len(t) >= 2 /\ t[1] = "'" /\ t[Len(t)] = "'"
  /\ \A h \in 2..(Len(t) - 1) : t[h] \notin {"'", "\\"}

IsNumber(t) == t # <<>> /\ \A k \in 1..Len(t) : t[k] \in Digits

IsOperand(t) ==
  \/ IsPath(t)
  \/ IsNumber(t)
  \/ IsTemplate(t)
  \/ IsQuoted(t)
  \/ /\ StartsWith(t, <<"n", "e", "w", " ", "D", "a", "t", "e", "(">>)
     /\ Len(t) > 20
     /\ SubSeq(t, Len(t) - 10, Len(t)) = <<")", ".", "g", "e", "t", "T", "i", "m", "e", "(", ")">>
     /\ LET inner == SubSeq(t, 10, Len(t) - 11)
        IN IsPath(inner) \/ IsTemplate(inner)

\* The position after the expression that begins at piece k, or 0 when there
\* is none: Expression is Unary (operator Unary)*, Unary is "!" Unary, an
\* Expression in parentheses, or an operand.
RECURSIVE ParseExpression(_, _)
RECURSIVE ParseUnary(_, _)
ParseUnary(pieces, k) ==
  IF k > Len(pieces) THEN 0
  ELSE IF pieces[k] = <<"!">> THEN ParseUnary(pieces, k + 1)
  ELSE IF pieces[k] = <<"(">>
       THEN LET e == ParseExpression(pieces, k + 1)
            IN IF e # 0 /\ e <= Len(pieces) /\ pieces[e] = <<")">> THEN e + 1 ELSE 0
  ELSE IF pieces[k] \notin Operators /\ IsOperand(pieces[k]) THEN k + 1
  ELSE 0

ParseExpression(pieces, k) ==
  LET u == ParseUnary(pieces, k)
  IN IF u = 0 THEN 0
     ELSE IF u <= Len(pieces) /\ pieces[u] \in Operators \ {<<"!">>, <<"(">>, <<")">>}
          THEN ParseExpression(pieces, u + 1)
          ELSE u

\* new Function("item", code) does not throw a SyntaxError.
Compiles(pieces) == ParseExpression(pieces, 1) = Len(pieces) + 1

\* new Function("item", "return ( ... )") on the transformed query: what the
\* transformation threw is thrown on, and a SyntaxError is thrown.
WhereFunction(transformedQuery) ==
  IF transformedQuery.thrown THEN transformedQuery
  ELSE IF ~Compiles(transformedQuery.code[1]) THEN [thrown |-> TRUE, code |-> None]
  ELSE transformedQuery

generateQueryTableWhereFunction(query) ==
  IF query = None THEN [thrown |-> FALSE, code |-> None]
  ELSE WhereFunction(transformTableQuery(query[1]))

generateQueryEntityWhereFunction(query) ==
  IF query = None THEN [thrown |-> FALSE, code |-> None]
  ELSE WhereFunction(transformEntityQuery(query[1]))

\* The characters of a key, a name or a property value; one that KeyText does
\* not list is held as a single character.
TextOf(k) == IF k \in DOMAIN KeyText THEN KeyText[k] ELSE <<k>>

\* The value of an operand for item: None for undefined, Some of its
\* characters for a string, and the digits after a mark for a number, which
\* is no string.  A tagged template calls a function that is not defined,
\* and a property of an undefined item.properties is read, which both throw.
OperandValue(piece, item) ==
  IF IsQuoted(piece)
  THEN [threw |-> FALSE, value |-> Some(SubSeq(piece, 2, Len(piece) - 1))]
  ELSE IF IsTemplate(piece)
  THEN [threw |-> TemplateStart(piece) > 1,
        value |-> Some(SubSeq(piece, TemplateStart(piece) + 1, Len(piece) - 1))]
  ELSE IF StartsWith(piece, <<"i", "t", "e", "m", ".", "p", "r", "o", "p", "e", "r", "t", "i", "e", "s", ".">>)
  THEN IF "properties" \notin DOMAIN item
       THEN [threw |-> TRUE, value |-> None]
       ELSE
         LET name == SubSeq(piece, 17, Len(piece))
             keys == { k \in DOMAIN item.properties : TextOf(k) = name }
         IN [threw |-> FALSE,
             value |-> IF keys = {} THEN None
                       ELSE Some(TextOf(item.properties[CHOOSE k \in keys : TRUE]))]
  ELSE IF IsNumber(piece)
  THEN [threw |-> FALSE, value |-> Some(<<"<number>">> \o piece)]
  ELSE LET field == SubSeq(piece, 6, Len(piece))
           fields == { f \in DOMAIN item : TextOf(f) = field }
       IN [threw |-> FALSE,
           value |-> IF fields = {} THEN None
                     ELSE Some(TextOf(item[CHOOSE f \in fields : TRUE]))]

\* queryWhere(item): whether the call throws and, if not, whether it returns
\* true.  The compiled filters called are one operand or one comparison by
\* === or !==.
Where(queryWhere, item) ==
  IF queryWhere.code = None THEN [threw |-> FALSE, value |-> TRUE]
  ELSE
    LET pieces == queryWhere.code[1]
    IN IF Len(pieces) = 1
       THEN [threw |-> OperandValue(pieces[1], item).threw,
             value |-> pieces[1] = <<"t", "r", "u", "e">>]
       ELSE
         LET left == OperandValue(pieces[1], item)
             right == OperandValue(pieces[3], item)
         IN [threw |-> left.threw \/ right.threw,
             value |-> (left.value = right.value) = (pieces[2] = <<"=", "=", "=">>)]

----------------------------------------------------------------------------
(* Queries *)

QUERY_RESULT_MAX_NUM == 1000

\* find({account, table: {$gte: nextTable}}) on $TABLES_COLLECTION$: the
\* tables of the records found.
FoundTables(s, account, nextTable) ==
  { t \in Tables :
      /\ s.tables[<<account, t>>] > 0
      /\ nextTable \in {Undefined, ""} \/ ~Less(Units(t), Units(nextTable)) }

\* find(), where() and simplesort("table"): the records in ascending order
\* of table.
FindTables(s, account, nextTable, queryWhere) ==
  LET names == { t \in FoundTables(s, account, nextTable) :
                   Where(queryWhere, TableRecord(account, t)).value }
      order == SetToSeq(names, LAMBDA t, u : Less(Units(t), Units(u)))
  IN Flatten([i \in 1..Len(order) |->
                [j \in 1..s.tables[<<account, order[i]>>] |->
                   TableRecord(account, order[i])]])

\* queryTable without the account in the find() filter.
queryTable_AnyAccount(s, account, queryOptions, nextTable) ==
  LET accept == [thrown |-> FALSE, code |-> None]
  IN [s EXCEPT !.ret = <<[tables |-> FindTables(s, "a", nextTable, accept)
                                       \o FindTables(s, "a$b", nextTable, accept),
                          nextTableName |-> Undefined]>>]

\* limit(n): the first n documents of a result set.
Limit(docList, n) ==
  SubSeq(docList, 1, IF Len(docList) < n THEN Len(docList) ELSE n)

\* TablesResponse with the last table returned as the cursor.
TablesResponse_CursorIsLastReturned(docList, top) ==
  IF Len(docList) > top
  THEN [tables |-> SubSeq(docList, 1, Len(docList) - 1),
        nextTableName |-> docList[Len(docList) - 1].table]
  ELSE [tables |-> docList, nextTableName |-> Undefined]

\* The pair queryTable returns for the documents read with limit(top + 1).
TablesResponse(docList, top) ==
  IF Len(docList) > top
  THEN [tables |-> SubSeq(docList, 1, Len(docList) - 1),
        nextTableName |-> docList[Len(docList)].table]
  ELSE [tables |-> docList, nextTableName |-> Undefined]

\* queryTable once the where function is generated: QueryConditionInvalid
\* when generating it threw, else the chain on $TABLES_COLLECTION$ and the
\* response.
QueryTables(s, account, queryOptions, nextTable, queryWhere) ==
  IF queryWhere.thrown THEN Throw(s, "QueryConditionInvalid")
  ELSE IF \E t \in FoundTables(s, account, nextTable) :
            Where(queryWhere, TableRecord(account, t)).threw
       THEN Throw(s, "ReferenceError")
  ELSE LET top == IF queryOptions.top # 0 THEN queryOptions.top ELSE 1000
       IN [s EXCEPT !.ret =
             <<TablesResponse(
                 Limit(FindTables(s, account, nextTable, queryWhere), top + 1),
                 top)>>]

\* queryOptions is [filter, top]; nextTable is Undefined or a table name.  ret
\* holds the pair the method returns.
queryTable(s, account, queryOptions, nextTable) ==
  QueryTables(s, account, queryOptions, nextTable,
              generateQueryTableWhereFunction(queryOptions.filter))

\* The sort comparator of queryTableEntities returning -1.
EntityBefore(o1, o2) ==
  \/ Less(Units(o1.PartitionKey), Units(o2.PartitionKey))
  \/ /\ o1.PartitionKey = o2.PartitionKey
     /\ Less(Units(o1.RowKey), Units(o2.RowKey))

\* The second where() of queryTableEntities: the entities at or after the
\* decoded continuation keys.
InSegment(data, decodedNextPartitionKey, decodedNextRowKey) ==
  IF /\ decodedNextPartitionKey # None
     /\ Less(decodedNextPartitionKey[1], Units(data.PartitionKey))
  THEN TRUE
  ELSE IF decodedNextRowKey # None
       THEN /\ ~Less(Units(data.RowKey), decodedNextRowKey[1])
            /\ decodedNextPartitionKey # None
            /\ Units(data.PartitionKey) = decodedNextPartitionKey[1]
       ELSE TRUE

\* The two where() calls and the sort of queryTableEntities on the documents
\* of a collection.
SortedSegment(s, data, queryWhere, nextPartitionKey, nextRowKey) ==
  SetToSeq({ c \in data :
               /\ Where(queryWhere, s.heap[c]).value
               /\ InSegment(s.heap[c], decodeContinuationHeader(nextPartitionKey),
                            decodeContinuationHeader(nextRowKey)) },
           LAMBDA c, d : EntityBefore(s.heap[c], s.heap[d]))

\* The triple queryTableEntities returns for the documents read with
\* limit(maxResults + 1).
EntitiesResponse(s, result, maxResults) ==
  IF Len(result) > maxResults
  THEN LET tail == s.heap[result[Len(result)]]
       IN [entities |-> SubSeq(result, 1, Len(result) - 1),
           nextPartitionKey |->
             encodeContinuationHeader(Some(Units(tail.PartitionKey))),
           nextRowKey |-> encodeContinuationHeader(Some(Units(tail.RowKey)))]
  ELSE [entities |-> result, nextPartitionKey |-> None, nextRowKey |-> None]

\* queryTableEntities once the where function is generated, on the documents
\* of the table's collection.
QueryEntities(s, data, queryOptions, nextPartitionKey, nextRowKey, queryWhere) ==
  IF queryWhere.thrown THEN Throw(s, "QueryConditionInvalid")
  ELSE IF \E c \in data : Where(queryWhere, s.heap[c]).threw
       THEN Throw(s, "ReferenceError")
  ELSE LET maxResults == IF queryOptions.top # 0 THEN queryOptions.top
                         ELSE QUERY_RESULT_MAX_NUM
       IN [s EXCEPT !.ret =
             <<EntitiesResponse(
                 s,
                 Limit(SortedSegment(s, data, queryWhere, nextPartitionKey,
                                     nextRowKey),
                       maxResults + 1),
                 maxResults)>>]

\* queryOptions is [filter, top]; a top of 0 is falsy, as an absent top is.
\* ret holds the triple the method returns.
queryTableEntities(s, account, table, queryOptions, nextPartitionKey, nextRowKey) ==
  IF findTable(s.tables, account, table) = <<>> THEN Throw(s, "TableNotExist")
  ELSE IF ~s.db[getTableCollectionName(account, table)].exists
       THEN Throw(s, "TableNotExist")
  ELSE QueryEntities(s, s.db[getTableCollectionName(account, table)].data,
                     queryOptions, nextPartitionKey, nextRowKey,
                     generateQueryEntityWhereFunction(queryOptions.filter))

----------------------------------------------------------------------------
(* Opening and closing *)

\* init() on a store whose database is in memory: the two fixed collections
\* are there already, and the fields are set.
init(s) == [s EXCEPT !.closed = FALSE]

\* close(): db.close() saves what is unsaved and leaves the collections in
\* memory; the field is set.
close(s) == [s EXCEPT !.closed = TRUE]

isClosed(s) == [s EXCEPT !.ret = <<s.closed>>]

----------------------------------------------------------------------------
(* Service properties *)

ServiceFields == {"cors", "hourMetrics", "logging", "minuteMetrics"}

\* coll.by("accountName", account) on $SERVICES_COLLECTION$.
ByAccountName(services, account) ==
  IF \E d \in services : d.accountName = account
  THEN <<CHOOSE d \in services : d.accountName = account>>
  ELSE <<>>

getServiceProperties(s, account) ==
  [s EXCEPT !.ret = ByAccountName(s.services, account)]

\* setServiceProperties replacing the four fields whether or not the incoming
\* value is defined.
setServiceProperties_ReplaceAll(s, serviceProperties) ==
  LET doc == ByAccountName(s.services, serviceProperties.accountName)
  IN [s EXCEPT !.services = (@ \ { d \in @ : doc = <<d>> }) \cup {serviceProperties},
               !.ret = <<serviceProperties>>]

setServiceProperties(s, serviceProperties) ==
  LET doc == ByAccountName(s.services, serviceProperties.accountName)
  IN IF doc # <<>>
     THEN
       LET updated ==
             [f \in DOMAIN doc[1] |->
                IF f \in ServiceFields /\ serviceProperties[f] # Undefined
                THEN serviceProperties[f] ELSE doc[1][f]]
       IN [s EXCEPT !.services = (@ \ {doc[1]}) \cup {updated},
                    !.ret = <<updated>>]
     ELSE [s EXCEPT !.services = @ \cup {serviceProperties},
                    !.ret = <<serviceProperties>>]

----------------------------------------------------------------------------
(* Batch transactions *)

\* beginBatchTransaction testing the rollback log only.
beginBatchTransaction_RollbackLogOnly(s, batchId) ==
  IF Len(s.rollback) > 0
  THEN Throw(s, "Transaction Overlapp!")
  ELSE s

beginBatchTransaction(s, batchId) ==
  IF Len(s.rollback) > 0 \/ Len(s.delete) > 0
  THEN Throw(s, "Transaction Overlapp!")
  ELSE s

\* for (const entity of this.transactionRollbackTheseEntities) { ... }
RECURSIVE RollbackLoop(_, _, _)
RollbackLoop(s, name, i) ==
  IF s.err # "" \/ i > Len(s.rollback) THEN s
  ELSE
    LET entity == s.heap[s.rollback[i]]
        doc == findOne(s, name, entity.PartitionKey, entity.RowKey)
        s1 == IF doc # Null THEN LokiRemove(s, name, doc) ELSE s
        c == NewCell(s1)
        s2 == WithObject(s1, NewObject(EntityOf(entity)))
    IN IF s1.err # "" THEN s1
       ELSE RollbackLoop(LokiInsert(s2, name, c), name, i + 1)

\* tableBatchCollection.remove(deleteRow).  A row that got its $loki from this
\* collection is removed by it.  A row that got it from another collection, or
\* from a collection since dropped, carries a number that LokiJS looks up here
\* all the same: depending on how many documents each collection has held, it
\* names no document of this collection or any one of them.
RemoveOutcomes(s, name, c) ==
  IF s.heap[c].loki = 0 \/ s.heap[c].home = name
  THEN { LokiRemove(s, name, c) }
  ELSE {s} \cup { LokiRemoveHit(s, name, c, d) : d \in s.db[name].data }

\* for (const deleteRow of this.transactionDeleteTheseEntities) { ... }
RECURSIVE DeleteLoop(_, _, _)
DeleteLoop(s, name, i) ==
  IF s.err # "" \/ i > Len(s.delete) THEN {s}
  ELSE UNION { DeleteLoop(s1, name, i + 1) : s1 \in RemoveOutcomes(s, name, s.delete[i]) }

ResetTrackers(s) ==
  IF s.err # "" THEN s
  ELSE [s EXCEPT !.rollback = <<>>, !.delete = <<>>]

\* The set of states endBatchTransaction can end in.
endBatchTransaction(s, account, table, batchId, succeeded) ==
  LET name == getTableCollectionName(account, table)
  IN IF ~succeeded /\ s.db[name].exists
     THEN { ResetTrackers(s1) : s1 \in DeleteLoop(RollbackLoop(s, name, 1), name, 1) }
     ELSE { ResetTrackers(s) }

----------------------------------------------------------------------------
(* The store as the handlers see it, and what a call leaves behind *)

Store ==
  [tables |-> tablesCollection, db |-> db, heap |-> heap,
   services |-> servicesCollection, closed |-> closed,
   rollback |-> transactionRollbackTheseEntities,
   delete |-> transactionDeleteTheseEntities,
   err |-> "", ret |-> <<>>, path |-> ""]

Commit(s) ==
  LET g == Collect(s)
  IN /\ tablesCollection' = g.tables
     /\ db' = g.db
     /\ heap' = g.heap
     /\ servicesCollection' = g.services
     /\ closed' = g.closed
     /\ transactionRollbackTheseEntities' = g.rollback
     /\ transactionDeleteTheseEntities' = g.delete

\* Calls are offered while the undo logs together stay within maxLog entries.
Offered(s, maxLog) == Len(s.rollback) + Len(s.delete) <= maxLog

\* The entities of every collection, by value.
Content(s) ==
  [n \in CollNames |->
     [exists |-> s.db[n].exists,
      entities |-> { EntityOf(s.heap[c]) : c \in s.db[n].data }]]

LogValues(s, log) == [i \in 1..Len(log) |-> EntityOf(s.heap[log[i]])]

SameData(s, t) == s.tables = t.tables /\ Content(s) = Content(t)
SameLogs(s, t) ==
  /\ LogValues(s, s.rollback) = LogValues(t, t.rollback)
  /\ LogValues(s, s.delete) = LogValues(t, t.delete)

Result(s) == IF s.err = "" THEN "ok" ELSE s.err

\* The record of a call: its arguments, its outcome, and how the store it
\* found compares with the store it left.
\* batchId is recorded for beginBatchTransaction and endBatchTransaction;
\* stored is the entity the call found under its key; the entity actions add
\* the ifMatch (or etag) argument and the supplied properties.
Call(op, account, table, partitionKey, rowKey, time, batchId, s) ==
  [op |-> op, account |-> account, table |-> table,
   PartitionKey |-> partitionKey, RowKey |-> rowKey,
   lastModifiedTime |-> time, batchId |-> batchId,
   result |-> Result(s), path |-> s.path,
   ret |-> IF op = "getTable" THEN s.ret ELSE <<>>,
   registered |-> /\ account \in Accounts /\ table \in Tables
                  /\ findTable(tablesCollection, account, table) # <<>>,
   existed |-> /\ account \in Accounts /\ table \in Tables
               /\ findOne(Store, getTableCollectionName(account, table),
                          partitionKey, rowKey) # Null,
   stored |-> IF /\ account \in Accounts /\ table \in Tables
                 /\ findOne(Store, getTableCollectionName(account, table),
                            partitionKey, rowKey) # Null
              THEN Some(EntityOf(heap[findOne(Store, getTableCollectionName(account, table),
                                              partitionKey, rowKey)]))
              ELSE None,
   ifMatch |-> None, supplied |-> EmptyProps,
   before |-> IF account \in Accounts /\ table \in Tables
              THEN lifecycle[<<account, table>>] ELSE "",
   sameData |-> SameData(Store, s),
   sameLogs |-> SameLogs(Store, s)]

NoCall ==
  [op |-> "", account |-> "", table |-> "", PartitionKey |-> "", RowKey |-> "",
   lastModifiedTime |-> 0, batchId |-> "", result |-> "", path |-> "", ret |-> <<>>,
   registered |-> FALSE, existed |-> FALSE, stored |-> None,
   ifMatch |-> None, supplied |-> EmptyProps, before |-> "",
   sameData |-> TRUE, sameLogs |-> TRUE]

\* The batch under observation: the content of the store when its
\* beginBatchTransaction succeeded and the entity operations that have
\* succeeded with its batchId since.  Any other writing call in between ends
\* the observation.
NoBatch == [status |-> "none", id |-> "", pre |-> <<>>, ops |-> {}]

BatchAfterWrite(batchId, account, table, partitionKey, rowKey, s) ==
  IF batch.status = "open" /\ batchId = batch.id
  THEN IF s.err = ""
       THEN [batch EXCEPT !.ops = @ \cup
               {[kind |-> s.path, account |-> account, table |-> table,
                 PartitionKey |-> partitionKey, RowKey |-> rowKey]}]
       ELSE batch
  ELSE NoBatch

BatchAfterRead == IF batch.status = "open" THEN batch ELSE NoBatch

\* batchId arguments: absent, "", or the id of a batch that has begun.
Eligible(Bs) == { b \in Bs : b \in BatchIds => b \in active }

----------------------------------------------------------------------------
(* Actions: one per public method.  in is the record of the sets the        *)
(* arguments are drawn from.                                                *)

\* The record of a createTable call holds the entities that were stored
\* under the collection name when it was made.
CreateTable(in) ==
  \E account \in in.accounts, table \in in.tables :
    LET s == createTable(Store, account, table)
    IN /\ Commit(s)
       /\ last' = [found |-> Content(Store)[getTableCollectionName(account, table)].entities]
                  @@ Call("createTable", account, table, "", "", 0, "", s)
       /\ lifecycle' = IF s.err = ""
                       THEN [lifecycle EXCEPT ![<<account, table>>] = "created"]
                       ELSE lifecycle
       /\ batch' = NoBatch
       /\ UNCHANGED <<active, awaiting>>

DeleteTable(in) ==
  \E account \in in.accounts, table \in in.tables :
    LET s == deleteTable(Store, table, account)
    IN /\ Commit(s)
       /\ last' = Call("deleteTable", account, table, "", "", 0, "", s)
       /\ lifecycle' = IF s.err = ""
                       THEN [lifecycle EXCEPT ![<<account, table>>] = "deleted"]
                       ELSE lifecycle
       /\ batch' = NoBatch
       /\ UNCHANGED <<active, awaiting>>

GetTable(in) ==
  \E account \in in.accounts, table \in in.tables :
    LET s == getTable(Store, account, table)
    IN /\ Commit(s)
       /\ last' = Call("getTable", account, table, "", "", 0, "", s)
       /\ batch' = BatchAfterRead
       /\ UNCHANGED <<active, lifecycle, awaiting>>

InsertTableEntity(in) ==
  \E account \in in.accounts, table \in in.tables, entity \in in.entities,
     batchId \in Eligible(in.batchIds) :
    LET s == insertTableEntity(Store, table, account, entity, batchId)
    IN /\ Offered(s, in.maxLog)
       /\ Commit(s)
       /\ last' = [Call("insertTableEntity", account, table, entity.PartitionKey,
                        entity.RowKey, entity.lastModifiedTime, "", s)
                     EXCEPT !.supplied = entity.properties]
       /\ batch' = BatchAfterWrite(batchId, account, table, entity.PartitionKey,
                                   entity.RowKey, s)
       /\ UNCHANGED <<active, lifecycle, awaiting>>

InsertOrUpdateTableEntity(in) ==
  \E account \in in.accounts, table \in in.tables, entity \in in.entities,
     ifMatch \in in.ifMatches, batchId \in Eligible(in.batchIds) :
    LET s == insertOrUpdateTableEntity(Store, table, account, entity, ifMatch, batchId)
    IN /\ Offered(s, in.maxLog)
       /\ Commit(s)
       /\ last' = [Call("insertOrUpdateTableEntity", account, table, entity.PartitionKey,
                        entity.RowKey, entity.lastModifiedTime, "", s)
                     EXCEPT !.ifMatch = ifMatch, !.supplied = entity.properties]
       /\ batch' = BatchAfterWrite(batchId, account, table, entity.PartitionKey,
                                   entity.RowKey, s)
       /\ UNCHANGED <<active, lifecycle, awaiting>>

InsertOrMergeTableEntity(in) ==
  \E account \in in.accounts, table \in in.tables, entity \in in.entities,
     ifMatch \in in.ifMatches, batchId \in Eligible(in.batchIds) :
    LET s == insertOrMergeTableEntity(Store, table, account, entity, ifMatch, batchId)
    IN /\ Offered(s, in.maxLog)
       /\ Commit(s)
       /\ last' = [Call("insertOrMergeTableEntity", account, table, entity.PartitionKey,
                        entity.RowKey, entity.lastModifiedTime, "", s)
                     EXCEPT !.ifMatch = ifMatch, !.supplied = entity.properties]
       /\ batch' = BatchAfterWrite(batchId, account, table, entity.PartitionKey,
                                   entity.RowKey, s)
       /\ UNCHANGED <<active, lifecycle, awaiting>>

\* deleteTableEntity's batchId is not optional.
DeleteTableEntity(in) ==
  \E account \in in.accounts, table \in in.tables, partitionKey \in in.partitionKeys,
     rowKey \in in.rowKeys, etag \in in.etags,
     batchId \in Eligible(in.batchIds) \ {Undefined} :
    LET s == deleteTableEntity(Store, table, account, partitionKey, rowKey, etag, batchId)
    IN /\ Offered(s, in.maxLog)
       /\ Commit(s)
       /\ last' = [Call("deleteTableEntity", account, table, partitionKey, rowKey,
                        0, "", s)
                     EXCEPT !.ifMatch = Some(etag)]
       /\ batch' = BatchAfterWrite(batchId, account, table, partitionKey, rowKey, s)
       /\ UNCHANGED <<active, lifecycle, awaiting>>

QueryTableEntitiesWithPartitionAndRowKey(in) ==
  \E account \in in.accounts, table \in in.tables, partitionKey \in in.partitionKeys,
     rowKey \in in.rowKeys :
    LET s == queryTableEntitiesWithPartitionAndRowKey(
               Store, table, account, partitionKey, rowKey)
    IN /\ Commit(s)
       /\ last' = Call("queryTableEntitiesWithPartitionAndRowKey", account, table,
                       partitionKey, rowKey, 0, "", s)
       /\ batch' = BatchAfterRead
       /\ UNCHANGED <<active, lifecycle, awaiting>>

\* What the caller of a query sees: the documents of an entity query by
\* value.
Returned(s) ==
  IF s.ret # <<>> /\ "entities" \in DOMAIN s.ret[1]
  THEN <<[s.ret[1] EXCEPT !.entities = [i \in 1..Len(@) |-> EntityOf(s.heap[@[i]])]]>>
  ELSE s.ret

\* The end of a query call: the store it leaves and the record of the call
\* with its arguments and what it returned.
Answer(s, op, account, table, arguments) ==
  /\ Commit(s)
  /\ last' = arguments @@ [Call(op, account, table, "", "", 0, "", s)
                             EXCEPT !.ret = Returned(s)]
  /\ batch' = BatchAfterRead
  /\ UNCHANGED <<active, lifecycle, awaiting>>

\* nextTable is absent or the name the last queryTable returned.
QueryTable(in) ==
  \E account \in in.accounts, filter \in in.filters, top \in in.tops,
     continue \in BOOLEAN :
    /\ continue => /\ last.op = "queryTable" /\ last.account = account
                   /\ last.top = top /\ last.filter = filter
                   /\ last.ret # <<>> /\ last.ret[1].nextTableName # Undefined
    /\ LET nextTable == IF continue THEN last.ret[1].nextTableName ELSE Undefined
       IN Answer(queryTable(Store, account, [filter |-> filter, top |-> top],
                            nextTable),
                 "queryTable", account, "",
                 [top |-> top, filter |-> filter, nextTable |-> nextTable])

\* The continuation keys of a call are absent or those the last query
\* returned.
QueryTableEntities(in) ==
  \E account \in in.accounts, table \in in.tables, filter \in in.filters,
     top \in in.tops, continue \in BOOLEAN :
    /\ continue => /\ last.op = "queryTableEntities"
                   /\ last.account = account /\ last.table = table
                   /\ last.top = top /\ last.filter = filter
                   /\ last.ret # <<>> /\ last.ret[1].nextPartitionKey # None
    /\ LET nextPartitionKey == IF continue THEN last.ret[1].nextPartitionKey ELSE None
           nextRowKey == IF continue THEN last.ret[1].nextRowKey ELSE None
       IN Answer(queryTableEntities(Store, account, table,
                                    [filter |-> filter, top |-> top],
                                    nextPartitionKey, nextRowKey),
                 "queryTableEntities", account, table,
                 [top |-> top, filter |-> filter,
                  nextPartitionKey |-> nextPartitionKey,
                  nextRowKey |-> nextRowKey])

GetServiceProperties(in) ==
  \E account \in in.accounts :
    LET s == getServiceProperties(Store, account)
    IN /\ Commit(s)
       /\ last' = [Call("getServiceProperties", account, "", "", "", 0, "", s)
                     EXCEPT !.ret = s.ret]
       /\ batch' = BatchAfterRead
       /\ UNCHANGED <<active, lifecycle, awaiting>>

SetServiceProperties(in) ==
  \E serviceProperties \in in.serviceProperties :
    LET s == setServiceProperties(Store, serviceProperties)
    IN /\ Commit(s)
       /\ last' = [Call("setServiceProperties", serviceProperties.accountName,
                        "", "", "", 0, "", s)
                     EXCEPT !.ret = s.ret,
                            !.supplied = serviceProperties,
                            !.stored = ByAccountName(servicesCollection,
                                                     serviceProperties.accountName)]
       /\ batch' = BatchAfterRead
       /\ UNCHANGED <<active, lifecycle, awaiting>>

Reopen ==
  LET s == init(Store)
  IN /\ Commit(s)
     /\ last' = Call("init", "", "", "", "", 0, "", s)
     /\ batch' = BatchAfterRead
     /\ UNCHANGED <<active, lifecycle, awaiting>>

Close ==
  LET s == close(Store)
  IN /\ Commit(s)
     /\ last' = Call("close", "", "", "", "", 0, "", s)
     /\ batch' = BatchAfterRead
     /\ UNCHANGED <<active, lifecycle, awaiting>>

IsClosed ==
  LET s == isClosed(Store)
  IN /\ Commit(s)
     /\ last' = [Call("isClosed", "", "", "", "", 0, "", s) EXCEPT !.ret = s.ret]
     /\ batch' = BatchAfterRead
     /\ UNCHANGED <<active, lifecycle, awaiting>>

\* An upsert called with ifMatch absent or "*" runs its probe and is suspended
\* at the await with what the probe found; a probe that throws ends the call.
\* Any call may be made before the suspended call goes on.
UpsertProbe(in) ==
  \E op \in {"insertOrUpdateTableEntity", "insertOrMergeTableEntity"},
     account \in in.accounts, table \in in.tables, entity \in in.entities,
     ifMatch \in in.ifMatches \cap {None, Some(Star)},
     batchId \in Eligible(in.batchIds) :
    LET s == queryTableEntitiesWithPartitionAndRowKey(
               Store, table, account, entity.PartitionKey, entity.RowKey)
    IN /\ Len(awaiting) < MaxAwaiting
       /\ Commit([s EXCEPT !.ret = <<>>])
       /\ last' = [Call(op, account, table, entity.PartitionKey, entity.RowKey,
                        entity.lastModifiedTime, "", s)
                     EXCEPT !.ifMatch = ifMatch, !.supplied = entity.properties,
                            !.result = IF s.err = "" THEN "await" ELSE s.err]
       /\ awaiting' = IF s.err # "" THEN awaiting
                      ELSE Append(awaiting,
                                  [op |-> op, account |-> account, table |-> table,
                                   entity |-> entity, ifMatch |-> ifMatch,
                                   batchId |-> batchId,
                                   existingEntity |-> s.ret # <<>>])
       /\ batch' = BatchAfterRead
       /\ UNCHANGED <<active, lifecycle>>

\* What an upsert does after its await, with what its probe found.
AfterAwait(s, call) ==
  IF call.existingEntity
  THEN IF call.op = "insertOrUpdateTableEntity"
       THEN updateTableEntity(s, call.table, call.account, call.entity,
                              call.ifMatch, call.batchId)
       ELSE mergeTableEntity(s, call.table, call.account, call.entity,
                             call.ifMatch, call.batchId)
  ELSE insertTableEntity(s, call.table, call.account, call.entity, call.batchId)

\* The suspended calls go on in the order in which they were suspended.
UpsertResume(in) ==
  /\ awaiting # <<>>
  /\ LET call == Head(awaiting)
         s == AfterAwait(Store, call)
     IN /\ Offered(s, in.maxLog)
        /\ Commit(s)
        /\ last' = [Call(call.op, call.account, call.table, call.entity.PartitionKey,
                         call.entity.RowKey, call.entity.lastModifiedTime, "", s)
                      EXCEPT !.ifMatch = call.ifMatch,
                             !.supplied = call.entity.properties]
        /\ awaiting' = Tail(awaiting)
        /\ batch' = BatchAfterWrite(call.batchId, call.account, call.table,
                                    call.entity.PartitionKey, call.entity.RowKey, s)
        /\ UNCHANGED <<active, lifecycle>>

\* A caller begins a batch once.
BeginBatchTransaction(in) ==
  \E batchId \in (in.batchIds \cap BatchIds) \ active :
    LET s == beginBatchTransaction(Store, batchId)
    IN /\ Commit(s)
       /\ last' = Call("beginBatchTransaction", "", "", "", "", 0, batchId, s)
       /\ active' = IF s.err = "" THEN active \cup {batchId} ELSE active
       /\ batch' = IF s.err = "" /\ in.observe
                   THEN [status |-> "open", id |-> batchId, pre |-> Content(Store),
                         ops |-> {}]
                   ELSE NoBatch
       /\ UNCHANGED <<lifecycle, awaiting>>

\* A caller ends the batches it has begun.
EndBatchTransaction(in) ==
  \E account \in in.accounts, table \in in.tables, batchId \in active,
     succeeded \in BOOLEAN :
    \E s \in endBatchTransaction(Store, account, table, batchId, succeeded) :
      /\ Commit(s)
      /\ last' = [Call("endBatchTransaction", account, table, "", "", 0, batchId, s)
                    EXCEPT !.path = IF succeeded THEN "commit" ELSE "abort"]
      /\ active' = active \ {batchId}
      /\ batch' = IF batch.status = "open" /\ batch.id = batchId
                  THEN [batch EXCEPT !.status = IF succeeded THEN "committed"
                                                ELSE "aborted"]
                  ELSE NoBatch
      /\ UNCHANGED <<lifecycle, awaiting>>

----------------------------------------------------------------------------
(* Specifications *)

NoLifecycle == [p \in Accounts \X Tables |-> "never"]

\* The store after init(): no table, no entity collection.
Init ==
  /\ tablesCollection = NoTables
  /\ db = [n \in CollNames |-> NoCollection]
  /\ heap = <<>>
  /\ servicesCollection = {}
  /\ closed = FALSE
  /\ transactionRollbackTheseEntities = <<>>
  /\ transactionDeleteTheseEntities = <<>>
  /\ last = NoCall
  /\ batch = NoBatch
  /\ active = {}
  /\ lifecycle = NoLifecycle
  /\ awaiting = <<>>

\* Tables: creation, deletion and lookup over names with and without the
\* separator, with entity operations on one key outside any batch.
TableInputs ==
  [accounts |-> Accounts, tables |-> PairedTables,
   entities |-> InputEntities(PartitionKeys, {"r1"}, {1}, {EmptyProps}),
   partitionKeys |-> PartitionKeys, rowKeys |-> {"r1"},
   ifMatches |-> {None}, etags |-> {Star}, batchIds |-> {""},
   maxLog |-> MaxLog, observe |-> FALSE]

NextTables ==
  \/ CreateTable(TableInputs)
  \/ DeleteTable(TableInputs)
  \/ GetTable(TableInputs)
  \/ InsertTableEntity(TableInputs)
  \/ InsertOrUpdateTableEntity(TableInputs)
  \/ InsertOrMergeTableEntity(TableInputs)
  \/ DeleteTableEntity(TableInputs)
  \/ QueryTableEntitiesWithPartitionAndRowKey(TableInputs)

SpecTables == Init /\ [][NextTables]_vars

\* Entities and batches on one table, which createTable("a", "c") has made.
InitEntities ==
  /\ tablesCollection = InsertTable(NoTables, "a", "c")
  /\ db = [n \in CollNames |->
             IF n = getTableCollectionName("a", "c") THEN NewCollection ELSE NoCollection]
  /\ heap = <<>>
  /\ servicesCollection = {}
  /\ closed = FALSE
  /\ transactionRollbackTheseEntities = <<>>
  /\ transactionDeleteTheseEntities = <<>>
  /\ last = NoCall
  /\ batch = NoBatch
  /\ active = {}
  /\ lifecycle = [NoLifecycle EXCEPT ![<<"a", "c">>] = "created"]
  /\ awaiting = <<>>

\* Entities of two keys, in and out of a batch.
EntityInputs ==
  [accounts |-> {"a"}, tables |-> {"c"},
   entities |-> InputEntities(PartitionKeys, RowKeys, {1}, {EmptyProps}),
   partitionKeys |-> PartitionKeys, rowKeys |-> RowKeys,
   ifMatches |-> {None}, etags |-> {Star},
   batchIds |-> {"", "b1"}, maxLog |-> MaxLog, observe |-> FALSE]

NextEntities ==
  \/ InsertTableEntity(EntityInputs)
  \/ InsertOrUpdateTableEntity(EntityInputs)
  \/ InsertOrMergeTableEntity(EntityInputs)
  \/ DeleteTableEntity(EntityInputs)
  \/ BeginBatchTransaction(EntityInputs)
  \/ EndBatchTransaction(EntityInputs)

SpecEntities == InitEntities /\ [][NextEntities]_vars

\* Batches on one key of that table, each observed from its begin to its end.
BatchInputs ==
  [accounts |-> {"a"}, tables |-> {"c"},
   entities |-> InputEntities(PartitionKeys, {"r1"}, Times, {EmptyProps}),
   partitionKeys |-> PartitionKeys, rowKeys |-> {"r1"},
   ifMatches |-> {None}, etags |-> {Star},
   batchIds |-> {"", "b1"}, maxLog |-> MaxLog, observe |-> TRUE]

NextBatch ==
  \/ InsertTableEntity(BatchInputs)
  \/ InsertOrUpdateTableEntity(BatchInputs)
  \/ InsertOrMergeTableEntity(BatchInputs)
  \/ DeleteTableEntity(BatchInputs)
  \/ BeginBatchTransaction(BatchInputs)
  \/ EndBatchTransaction(BatchInputs)

SpecBatch == InitEntities /\ [][NextBatch]_vars

\* Calls with every form of batchId, and two batches.
OverlapInputs ==
  [accounts |-> {"a"}, tables |-> {"c"},
   entities |-> InputEntities(PartitionKeys, {"r1"}, {1}, InputProperties),
   partitionKeys |-> PartitionKeys, rowKeys |-> {"r1"},
   ifMatches |-> {None}, etags |-> {Star},
   batchIds |-> {Undefined, ""} \cup BatchIds, maxLog |-> MaxLog, observe |-> FALSE]

NextOverlap ==
  \/ InsertTableEntity(OverlapInputs)
  \/ InsertOrUpdateTableEntity(OverlapInputs)
  \/ InsertOrMergeTableEntity(OverlapInputs)
  \/ DeleteTableEntity(OverlapInputs)
  \/ BeginBatchTransaction(OverlapInputs)
  \/ EndBatchTransaction(OverlapInputs)

SpecOverlap == InitEntities /\ [][NextOverlap]_vars

\* ETags: one key of that table, written at two times, with ifMatch and etag
\* arguments that are absent, "*", an eTag as stored, an eTag with its first
\* colon encoded, and an eTag with both colons encoded.
EncodedETags(Ts) ==
  UNION { {NewETag(t), ReplaceColon(NewETag(t)), EncodeColons(NewETag(t))} : t \in Ts }

ETagInputs ==
  [accounts |-> {"a"}, tables |-> {"c"},
   entities |-> InputEntities(PartitionKeys, {"r1"}, Times, {EmptyProps}),
   partitionKeys |-> PartitionKeys, rowKeys |-> {"r1"},
   ifMatches |-> {None, Some(Star)} \cup { Some(e) : e \in EncodedETags(Times) },
   etags |-> {Star} \cup EncodedETags(Times),
   batchIds |-> {""}, maxLog |-> MaxLog, observe |-> FALSE]

NextETag ==
  \/ InsertTableEntity(ETagInputs)
  \/ InsertOrUpdateTableEntity(ETagInputs)
  \/ InsertOrMergeTableEntity(ETagInputs)
  \/ DeleteTableEntity(ETagInputs)

SpecETag == InitEntities /\ [][NextETag]_vars

\* Merges: one key of that table, written with property sets over the keys
\* x, x@odata.type and y, among them a tag without its base key.
TaggedProperties ==
  { [k \in K |-> IF k = "x" \o ODATA_TYPE THEN "Edm.Guid" ELSE v] :
      K \in SUBSET {"x", "x" \o ODATA_TYPE, "y"}, v \in {"v", "w"} }

MergeInputs ==
  [accounts |-> {"a"}, tables |-> {"c"},
   entities |-> InputEntities(PartitionKeys, {"r1"}, {1}, TaggedProperties),
   partitionKeys |-> PartitionKeys, rowKeys |-> {"r1"},
   ifMatches |-> {None}, etags |-> {Star},
   batchIds |-> {""}, maxLog |-> MaxLog, observe |-> FALSE]

NextMerge ==
  \/ InsertTableEntity(MergeInputs)
  \/ InsertOrUpdateTableEntity(MergeInputs)
  \/ InsertOrMergeTableEntity(MergeInputs)
  \/ DeleteTableEntity(MergeInputs)

SpecMerge == InitEntities /\ [][NextMerge]_vars

\* Paged queries over a table of up to six entities, one of them under a row
\* key that is a surrogate without its pair.
Tops == {0, 1, 2}
QueryInputs ==
  [accounts |-> {"a"}, tables |-> {"c"},
   entities |-> InputEntities({"p", "q"}, {"r1", "r2", "<D800>"}, {1}, {EmptyProps}),
   partitionKeys |-> {"p", "q"}, rowKeys |-> {"r1", "r2", "<D800>"},
   ifMatches |-> {None}, etags |-> {Star}, batchIds |-> {""},
   filters |-> {None}, tops |-> Tops,
   maxLog |-> MaxLog, observe |-> FALSE]

NextQuery ==
  \/ InsertTableEntity(QueryInputs)
  \/ DeleteTableEntity(QueryInputs)
  \/ QueryTableEntities(QueryInputs)

SpecQuery == InitEntities /\ [][NextQuery]_vars

\* Queries of the registry over every account and table, and of the
\* entities of table "c" of account "a" over two partitions.
RegistryQueryInputs ==
  [accounts |-> Accounts, tables |-> PairedTables, filters |-> {None}, tops |-> Tops]
EntityQueryInputs ==
  [accounts |-> {"a"}, tables |-> {"c"},
   entities |-> InputEntities({"p", "q"}, {"r1", "r2"}, {1}, {EmptyProps}),
   batchIds |-> {""}, filters |-> {None}, tops |-> Tops,
   maxLog |-> MaxLog, observe |-> FALSE]

NextOrdered ==
  \/ CreateTable(RegistryQueryInputs)
  \/ QueryTable(RegistryQueryInputs)
  \/ InsertTableEntity(EntityQueryInputs)
  \/ QueryTableEntities(EntityQueryInputs)

SpecOrdered == InitEntities /\ [][NextOrdered]_vars

\* Service properties of two accounts; each field is absent or has a value.
\* The second account is given two of the records.
ServiceInputs ==
  [accounts |-> Accounts,
   serviceProperties |->
     [accountName : {"a"}, cors : {Undefined, "v", "w"},
      hourMetrics : {Undefined, "v"}, logging : {Undefined, "v"},
      minuteMetrics : {Undefined, "v"}]
     \cup [accountName : {"a$b"}, cors : {"v", "w"}, hourMetrics : {Undefined},
           logging : {Undefined, "v"}, minuteMetrics : {Undefined}]]

NextServices ==
  \/ SetServiceProperties(ServiceInputs)
  \/ GetServiceProperties(ServiceInputs)

SpecServices == Init /\ [][NextServices]_vars

\* A store that is closed and opened again, with operations on the tables
\* of one account and on one entity key in between.
CloseInputs ==
  [accounts |-> {"a"}, tables |-> PairedTables,
   entities |-> InputEntities({"p"}, {"r1"}, {1}, {EmptyProps}),
   partitionKeys |-> {"p"}, rowKeys |-> {"r1"},
   ifMatches |-> {None}, etags |-> {Star}, batchIds |-> {""},
   filters |-> {None}, tops |-> {0},
   maxLog |-> MaxLog, observe |-> FALSE]

NextClose ==
  \/ Close
  \/ Reopen
  \/ IsClosed
  \/ CreateTable(CloseInputs)
  \/ DeleteTable(CloseInputs)
  \/ InsertTableEntity(CloseInputs)
  \/ DeleteTableEntity(CloseInputs)
  \/ QueryTable(CloseInputs)
  \/ QueryTableEntities(CloseInputs)

SpecClose == Init /\ [][NextClose]_vars

\* Filtered queries.  The filter P eq 's' for a property name P and a
\* string s that holds no quote:
EqualsFilter(P, str) == P \o <<" ", "e", "q", " ", "'">> \o str \o <<"'">>

FilterProperties == {<<"P", "a", "r", "t", "i", "t", "i", "o", "n", "K", "e", "y">>, <<"R", "o", "w", "K", "e", "y">>, <<"x">>}
FilterStrings == {<<"p">>, <<"r", "1">>, <<"1", "L">>, <<"v">>}
FilterIdentifiers ==
  {<<"T", "a", "b", "l", "e", "N", "a", "m", "e">>, <<"n", "a", "m", "e">>, <<"t", "a", "b", "l", "e">>, <<"P", "a", "r", "t", "i", "t", "i", "o", "n", "K", "e", "y">>, <<"R", "o", "w", "K", "e", "y">>, <<"x">>, <<"c", "o", "n", "s", "t", "r", "u", "c", "t", "o", "r">>}
\* Binary literals whose body does or does not read as a long integer.
BinaryLiterals == {<<"X", "'", "a", "b", "'">>, <<"b", "i", "n", "a", "r", "y", "'", "a", "b", "'">>, <<"X", "'", "1", "L", "'">>, <<"b", "i", "n", "a", "r", "y", "'", "L", "'">>}

Filters ==
  {None, Some(<<>>)}
    \cup { Some(EqualsFilter(P, str)) : P \in FilterProperties, str \in FilterStrings }
    \cup { Some(EqualsFilter(P, <<"c">>)) : P \in FilterIdentifiers }
    \cup { Some(<<"x", " ", "e", "q", " ">> \o b) : b \in BinaryLiterals }
    \cup { Some(b) : b \in BinaryLiterals }
    \cup { Some(b \o <<" ", "e", "q", " ", "x">>) : b \in BinaryLiterals }

\* In table "c" of account "a", entities under two row keys, with or without
\* the property x.
FilterInputs ==
  [accounts |-> {"a"}, tables |-> {"c"},
   entities |-> InputEntities({"p"}, {"r1", "1L"}, {1}, InputProperties),
   batchIds |-> {""}, filters |-> Filters, tops |-> {0},
   maxLog |-> MaxLog, observe |-> FALSE]

NextFilter ==
  \/ InsertTableEntity(FilterInputs)
  \/ QueryTable(FilterInputs)
  \/ QueryTableEntities(FilterInputs)

SpecFilter == InitEntities /\ [][NextFilter]_vars

\* Deletes of one key of that table, written at two times, in and out of a
\* batch, with etag arguments that are "*", an eTag as stored and an eTag with
\* colons encoded.
DeleteInputs ==
  [accounts |-> {"a"}, tables |-> {"c"},
   entities |-> InputEntities(PartitionKeys, {"r1"}, Times, {EmptyProps}),
   partitionKeys |-> PartitionKeys, rowKeys |-> {"r1"},
   ifMatches |-> {None}, etags |-> {Star} \cup EncodedETags(Times),
   batchIds |-> {"", "b1"}, maxLog |-> MaxLog, observe |-> FALSE]

NextDelete ==
  \/ InsertTableEntity(DeleteInputs)
  \/ InsertOrUpdateTableEntity(DeleteInputs)
  \/ DeleteTableEntity(DeleteInputs)
  \/ BeginBatchTransaction(DeleteInputs)
  \/ EndBatchTransaction(DeleteInputs)

SpecDelete == InitEntities /\ [][NextDelete]_vars

\* Paged queries of the registry: three table names for each account, with
\* no filter and with the filter name ne 'c'.
NotNamedC == <<"n", "a", "m", "e", " ", "n", "e", " ", "'", "c", "'">>

RegistryInputs ==
  [accounts |-> Accounts, tables |-> Tables,
   filters |-> {None, Some(NotNamedC)}, tops |-> {1, 2}]

NextRegistry ==
  \/ CreateTable(RegistryInputs)
  \/ DeleteTable(RegistryInputs)
  \/ QueryTable(RegistryInputs)

SpecRegistry == Init /\ [][NextRegistry]_vars

\* Calls that fail: on table "c", whose one entity is written at time 1, and
\* on table "d", which has no record, with ifMatch and etag arguments that
\* are the eTag of time 1 or of time 2, a key that may be absent and a filter
\* that may not compile, in and out of a batch.
FailureInputs ==
  [accounts |-> {"a"}, tables |-> {"c", "d"},
   entities |-> InputEntities(PartitionKeys, {"r1"}, {1}, {EmptyProps}),
   partitionKeys |-> PartitionKeys \cup {Undefined}, rowKeys |-> {"r1"},
   ifMatches |-> {None, Some(NewETag(1)), Some(NewETag(2))},
   etags |-> {Star, NewETag(1), NewETag(2)},
   batchIds |-> {"", "b1"}, filters |-> {None, Some(<<>>)}, tops |-> {0},
   maxLog |-> MaxLog, observe |-> FALSE]

NextFailures ==
  \/ InsertTableEntity(FailureInputs)
  \/ InsertOrUpdateTableEntity(FailureInputs)
  \/ InsertOrMergeTableEntity(FailureInputs)
  \/ DeleteTableEntity(FailureInputs)
  \/ QueryTableEntities(FailureInputs)
  \/ BeginBatchTransaction(FailureInputs)
  \/ EndBatchTransaction(FailureInputs)

SpecFailures == InitEntities /\ [][NextFailures]_vars

\* Upserts of one key of that table that are called without waiting for one
\* another, with inserts and deletes of the key called in between.
UpsertInputs ==
  [accounts |-> {"a"}, tables |-> {"c"},
   entities |-> InputEntities(PartitionKeys, {"r1"}, Times, InputProperties),
   partitionKeys |-> PartitionKeys, rowKeys |-> {"r1"},
   ifMatches |-> {None}, etags |-> {Star},
   batchIds |-> {""}, maxLog |-> MaxLog, observe |-> FALSE]

NextUpserts ==
  \/ UpsertProbe(UpsertInputs)
  \/ UpsertResume(UpsertInputs)
  \/ InsertTableEntity(UpsertInputs)
  \/ DeleteTableEntity(UpsertInputs)

SpecUpserts == InitEntities /\ [][NextUpserts]_vars

----------------------------------------------------------------------------
(* Properties *)

\* The entities a store content holds under the key of a batch operation.
ValueAt(content, o) ==
  { e \in content[getTableCollectionName(o.account, o.table)].entities :
      e.PartitionKey = o.PartitionKey /\ e.RowKey = o.RowKey }

\* The entities the store holds under the key of the last call.
StoredByLast ==
  { EntityOf(heap[c]) : c \in
      { d \in db[getTableCollectionName(last.account, last.table)].data :
          /\ heap[d].PartitionKey = last.PartitionKey
          /\ heap[d].RowKey = last.RowKey } }

EntityOps ==
  {"insertTableEntity", "insertOrUpdateTableEntity", "insertOrMergeTableEntity",
   "deleteTableEntity", "queryTableEntitiesWithPartitionAndRowKey"}

\* C1: when a batch whose operations were updates, merges and deletes on one
\* table ends with succeeded = false, every entity those operations touched
\* has exactly the value it had when the batch began.
C1_AbortRestoresTouched ==
  (/\ batch.status = "aborted"
   /\ batch.ops # {}
   /\ \A o \in batch.ops : o.kind \in {"update", "merge", "delete"})
  => \A o \in batch.ops : ValueAt(Content(Store), o) = ValueAt(batch.pre, o)

\* C2: when a batch ends with succeeded = false, no entity remains whose key
\* was absent when the batch began and was inserted during it, whatever the
\* batch did to that entity afterwards.
C2_AbortRemovesInserted ==
  batch.status = "aborted"
  => \A o \in batch.ops :
       (o.kind = "insert" /\ ValueAt(batch.pre, o) = {})
       => ValueAt(Content(Store), o) = {}

\* C3: while a batch that has begun has not ended, beginBatchTransaction for
\* another batch fails with the transaction-overlap error.
C3_OneBatchInFlight ==
  (last.op = "beginBatchTransaction" /\ (active \ {last.batchId}) # {})
  => last.result = "Transaction Overlapp!"

\* C4: in every state in which no batch is active both undo logs are empty.
C4_LogsEmptyOutsideBatch ==
  active = {}
  => /\ transactionRollbackTheseEntities = <<>>
     /\ transactionDeleteTheseEntities = <<>>

\* C5: every call of endBatchTransaction ends with both undo logs empty, and
\* with succeeded = true it changes no table and no entity.
C5_EndClearsLogs ==
  last.op = "endBatchTransaction"
  => /\ transactionRollbackTheseEntities = <<>>
     /\ transactionDeleteTheseEntities = <<>>
     /\ last.path = "commit" => last.sameData

\* C6: after createTable(a, t) succeeds the entity collection of (a, t) exists
\* and getTable(a, t) returns the table record, and goes on returning it while
\* (a, t) is not deleted; createTable(a, t) on a pair created and not deleted
\* since fails with table-already-exists and changes nothing.
C6_CreateTableContract ==
  /\ (last.op = "createTable" /\ last.result = "ok")
     => /\ db[getTableCollectionName(last.account, last.table)].exists
        /\ getTable(Store, last.account, last.table).ret
             = <<TableRecord(last.account, last.table)>>
  /\ (last.op = "getTable" /\ last.before = "created")
     => last.ret = <<TableRecord(last.account, last.table)>>
  /\ (last.op = "createTable" /\ last.before = "created")
     => /\ last.result = "TableAlreadyExists"
        /\ last.sameData
        /\ last.sameLogs

\* A second createTable of a pair has failed while another pair is registered.
C6_Witness_SecondCreate ==
  /\ last.op = "createTable"
  /\ last.before = "created"
  /\ last.result = "TableAlreadyExists"
  /\ \E p \in Accounts \X Tables :
       p # <<last.account, last.table>> /\ lifecycle[p] = "created"

\* C7: from a successful deleteTable(a, t) until (a, t) is created again, the
\* entity collection of (a, t) does not exist and every entity operation on
\* (a, t) fails with table-not-exist; deleteTable of a pair with no record
\* fails with resource-not-found.
C7_DeletedTableIsGone ==
  /\ \A a \in Accounts, t \in Tables :
       lifecycle[<<a, t>>] = "deleted" => ~db[getTableCollectionName(a, t)].exists
  /\ (last.op \in EntityOps /\ last.before = "deleted")
     => last.result = "TableNotExist"
  /\ (last.op = "deleteTable" /\ ~last.registered)
     => last.result = "ResourceNotFound"

\* C8: there is at most one Table record for each (account, table), and a
\* record for (account, table) exists exactly when the entity collection named
\* "<account>$<table>" exists.
C8_RegistryMatchesCollections ==
  \A a \in Accounts, t \in Tables :
    /\ tablesCollection[<<a, t>>] <= 1
    /\ (findTable(tablesCollection, a, t) # <<>>)
         <=> db[getTableCollectionName(a, t)].exists

\* C9: each entity collection holds at most one entity for each
\* (PartitionKey, RowKey), and insertTableEntity of a key that is present
\* fails with entity-already-exists.
C9_KeyIsUnique ==
  /\ \A n \in CollNames : \A c, d \in db[n].data :
       (heap[c].PartitionKey = heap[d].PartitionKey /\ heap[c].RowKey = heap[d].RowKey)
       => c = d
  /\ (last.op = "insertTableEntity" /\ last.existed)
     => last.result = "EntityAlreadyExist"

\* An insert of a present key has failed in a table that holds two entities
\* while a batch's undo logs are in use.
C9_Witness_DuplicateInsert ==
  /\ last.op = "insertTableEntity"
  /\ last.existed
  /\ last.result = "EntityAlreadyExist"
  /\ Cardinality(db[getTableCollectionName("a", "c")].data) = 2
  /\ transactionRollbackTheseEntities # <<>>

\* C10: after every successful entity write the stored entity's Timestamp is
\* the text form of the lastModifiedTime supplied with the write, and its
\* type tag is "Edm.DateTime".
C10_TimestampFollowsWrite ==
  (/\ last.op \in {"insertTableEntity", "insertOrUpdateTableEntity",
                   "insertOrMergeTableEntity"}
   /\ last.result = "ok")
  => \A e \in StoredByLast :
       /\ "Timestamp" \in DOMAIN e.properties
       /\ e.properties["Timestamp"] = getTimestampString(last.lastModifiedTime)
       /\ ("Timestamp" \o ODATA_TYPE) \in DOMAIN e.properties
       /\ e.properties["Timestamp" \o ODATA_TYPE] = "Edm.DateTime"

\* The comparison the ETag rule prescribes: the two texts are equal once the
\* first two ":" of each are replaced by "%3A".
EqualEncoded(eTag, ifMatch) == EncodeColons(eTag) = EncodeColons(ifMatch)

\* C11: with ifMatch neither absent nor "*", an update, a merge and a delete
\* of an existing entity succeed exactly when the stored eTag and ifMatch are
\* equal after the first two ":" of each are replaced by "%3A", and fail with
\* precondition-failed otherwise.
C11_ETagRule ==
  (/\ last.op \in {"insertOrUpdateTableEntity", "insertOrMergeTableEntity",
                   "deleteTableEntity"}
   /\ last.stored # None
   /\ last.ifMatch # None
   /\ last.ifMatch # Some(Star))
  => IF EqualEncoded(last.stored[1].eTag, last.ifMatch[1])
     THEN last.result = "ok"
     ELSE last.result = "PreconditionFailed"

\* The keys of a property set that are not type tags, and the tags that go
\* with them.
BaseKeys(props) == { k \in DOMAIN props : \A b \in BaseNames : k # b \o ODATA_TYPE }
TagsOf(keys) == { k \o ODATA_TYPE : k \in keys }

\* The properties stored under the one key of table (a, c) after first e1
\* and then e2 are merged into the entity it holds.
MergedTwice(e1, e2) ==
  LET s == insertOrMergeTableEntity(
             insertOrMergeTableEntity(Store, "c", "a", e1, None, ""),
             "c", "a", e2, None, "")
  IN { e.properties : e \in Content(s)[getTableCollectionName("a", "c")].entities }

\* C12: a successful merge keeps every stored property whose key is neither
\* supplied nor the tag of a supplied key; every supplied key that is not a
\* tag gets the supplied value, and its tag gets the supplied tag or, when
\* none is supplied, is removed; merging two property sets with disjoint keys
\* gives the same stored properties in either order.
C12_MergeRule ==
  /\ (last.op = "insertOrMergeTableEntity" /\ last.path = "merge" /\ last.result = "ok")
     => \A e \in StoredByLast :
          LET old == last.stored[1].properties
              new == e.properties
              keys == BaseKeys(last.supplied)
          IN /\ \A k \in DOMAIN old \ (DOMAIN last.supplied \cup TagsOf(keys)) :
                  k \in DOMAIN new /\ new[k] = old[k]
             /\ \A k \in keys :
                  /\ k \in DOMAIN new /\ new[k] = last.supplied[k]
                  /\ IF (k \o ODATA_TYPE) \in DOMAIN last.supplied
                     THEN /\ (k \o ODATA_TYPE) \in DOMAIN new
                          /\ new[k \o ODATA_TYPE] = last.supplied[k \o ODATA_TYPE]
                     ELSE (k \o ODATA_TYPE) \notin DOMAIN new
  /\ \A e1, e2 \in MergeInputs.entities :
       (/\ findOne(Store, getTableCollectionName("a", "c"), "p", "r1") # Null
        /\ DOMAIN e1.properties \cap DOMAIN e2.properties = {})
       => /\ MergedTwice(e1, e2) = MergedTwice(e2, e1)
          /\ Cardinality(MergedTwice(e1, e2)) = 1

\* A merge has supplied x without a tag to an entity stored with a tag for x,
\* and has kept its y.
C12_Witness_TagRemoved ==
  /\ last.op = "insertOrMergeTableEntity"
  /\ last.path = "merge"
  /\ last.result = "ok"
  /\ DOMAIN last.supplied = {"x"}
  /\ {"x", "x" \o ODATA_TYPE, "y"} \subseteq DOMAIN last.stored[1].properties
  /\ last.supplied["x"] # last.stored[1].properties["x"]
  /\ \E e \in StoredByLast : "y" \in DOMAIN e.properties

\* The pages a caller gets from queryTableEntities on table "c" of account
\* "a" without a filter, following the continuation keys for at most calls
\* calls.
RECURSIVE Pages(_, _, _, _)
Pages(top, nextPartitionKey, nextRowKey, calls) ==
  LET r == queryTableEntities(Store, "a", "c", [filter |-> None, top |-> top],
                              nextPartitionKey, nextRowKey).ret[1]
      page == [r EXCEPT !.entities = [i \in 1..Len(@) |-> EntityOf(heap[@[i]])]]
  IN IF r.nextPartitionKey = None \/ calls = 1 THEN <<page>>
     ELSE <<page>> \o Pages(top, r.nextPartitionKey, r.nextRowKey, calls - 1)

EntitiesInKeyOrder ==
  SetToSeq(Content(Store)[getTableCollectionName("a", "c")].entities, EntityBefore)

\* C13: with a positive page size k a query returns at most k entities and
\* returns continuation keys exactly when more than k entities remain; the
\* pages of a chain of calls, each passing the keys the one before returned,
\* hold every entity exactly once, and the keys a call returns decode to the
\* keys of the first entity of the next page.
C13_PagesCoverEveryEntity ==
  \A k \in Tops \ {0} :
    LET all == EntitiesInKeyOrder
        pages == Pages(k, None, None, Len(all) + 1)
        lists == [i \in 1..Len(pages) |-> pages[i].entities]
        left(i) == Len(all) - Len(Flatten(SubSeq(lists, 1, i - 1)))
    IN /\ \A i \in 1..Len(pages) :
            /\ Len(lists[i]) <= k
            /\ (pages[i].nextPartitionKey # None) <=> (left(i) > k)
            /\ (pages[i].nextRowKey # None) <=> (left(i) > k)
       /\ Flatten(lists) = all
       /\ \A i \in 1..(Len(pages) - 1) :
            /\ lists[i + 1] # <<>>
            /\ decodeContinuationHeader(pages[i].nextPartitionKey)
                 = Some(Units(lists[i + 1][1].PartitionKey))
            /\ decodeContinuationHeader(pages[i].nextRowKey)
                 = Some(Units(lists[i + 1][1].RowKey))

\* C14: the entities queryTableEntities returns are in ascending order of
\* (PartitionKey, RowKey); the tables queryTable returns are in ascending
\* order of table name and all belong to the requested account.
C14_ResultsAreSorted ==
  /\ (last.op = "queryTableEntities" /\ last.result = "ok")
     => \A i, j \in 1..Len(last.ret[1].entities) :
          i < j => EntityBefore(last.ret[1].entities[i], last.ret[1].entities[j])
  /\ (last.op = "queryTable" /\ last.result = "ok")
     => /\ \A i, j \in 1..Len(last.ret[1].tables) :
             i < j => ~Less(Units(last.ret[1].tables[j].table),
                            Units(last.ret[1].tables[i].table))
        /\ \A i \in 1..Len(last.ret[1].tables) :
             last.ret[1].tables[i].account = last.account

\* queryTable has returned two tables of an account while a table of another
\* account is registered.
C14_Witness_TwoTables ==
  /\ last.op = "queryTable" /\ last.result = "ok"
  /\ Len(last.ret[1].tables) = 2
  /\ \E a \in Accounts \ {last.account}, t \in Tables :
       findTable(tablesCollection, a, t) # <<>>

\* C15: the first setServiceProperties of an account creates its record; a
\* later one replaces each of cors, hourMetrics, minuteMetrics and logging
\* exactly when the incoming value is defined and keeps the others; the
\* records of other accounts stay as they were, and no accountName has more
\* than one record.
C15_ServicePropertiesUpsert ==
  /\ \A d, e \in servicesCollection : d.accountName = e.accountName => d = e
  /\ \A serviceProperties \in ServiceInputs.serviceProperties :
       LET old == ByAccountName(servicesCollection, serviceProperties.accountName)
           s == setServiceProperties(Store, serviceProperties)
           new == ByAccountName(s.services, serviceProperties.accountName)
       IN /\ s.err = ""
          /\ new # <<>>
          /\ old = <<>> => new = <<serviceProperties>>
          /\ old # <<>> =>
               \A f \in ServiceFields :
                 new[1][f] = IF serviceProperties[f] # Undefined
                             THEN serviceProperties[f] ELSE old[1][f]
          /\ \A d, e \in s.services : d.accountName = e.accountName => d = e
          /\ \A a \in Accounts \ {serviceProperties.accountName} :
               ByAccountName(s.services, a) = ByAccountName(servicesCollection, a)
  /\ (last.op = "setServiceProperties")
     => /\ last.result = "ok"
        /\ ByAccountName(servicesCollection, last.account) = last.ret
        /\ last.stored = <<>> => last.ret = <<last.supplied>>
        /\ last.stored # <<>> =>
             \A f \in ServiceFields :
               last.ret[1][f] = IF last.supplied[f] # Undefined
                                THEN last.supplied[f] ELSE last.stored[1][f]

\* A later call has replaced one field and kept another, while another
\* account has a record.
C15_Witness_PartialUpdate ==
  /\ last.op = "setServiceProperties" /\ last.stored # <<>>
  /\ last.supplied.cors # Undefined /\ last.supplied.cors # last.stored[1].cors
  /\ last.supplied.logging = Undefined /\ last.stored[1].logging # Undefined
  /\ Cardinality(servicesCollection) = 2

\* C16: once close() has completed and until init() is called again,
\* isClosed() returns true and every operation of the store fails and leaves
\* the store as it was.
C16_ClosedStoreRefuses ==
  /\ last.op = "close" => isClosed(Store).ret = <<TRUE>>
  /\ (last.op = "isClosed" /\ closed) => last.ret = <<TRUE>>
  /\ (closed /\ last.op \notin {"close", "isClosed"})
     => last.result # "ok" /\ last.sameData

\* The tables of the account and the entities of the table of the last call,
\* in the order the queries return them.
TablesOfLast ==
  LET order == SetToSeq({ t \in Tables : findTable(tablesCollection, last.account, t) # <<>> },
                        LAMBDA t, u : Less(Units(t), Units(u)))
  IN [i \in 1..Len(order) |-> TableRecord(last.account, order[i])]

\* C17: queryTable and queryTableEntities called without a filter, and
\* called with the empty string as filter, do not fail with
\* QueryConditionInvalid and return every record.
C17_NoFilterAcceptsAll ==
  /\ (last.op = "queryTable" /\ last.filter \in {None, Some(<<>>)})
     => /\ last.result = "ok"
        /\ last.ret[1].tables = TablesOfLast
  /\ (last.op = "queryTableEntities" /\ last.filter \in {None, Some(<<>>)})
     => /\ last.result = "ok"
        /\ last.ret[1].entities = EntitiesInKeyOrder

\* Whether entity e has the string str as its property P.
HasValue(e, P, str) ==
  IF P = <<"P", "a", "r", "t", "i", "t", "i", "o", "n", "K", "e", "y">> THEN TextOf(e.PartitionKey) = str
  ELSE IF P = <<"R", "o", "w", "K", "e", "y">> THEN TextOf(e.RowKey) = str
  ELSE \E k \in DOMAIN e.properties : TextOf(k) = P /\ TextOf(e.properties[k]) = str

\* C18: an entity query with the filter P eq 's', for PartitionKey, RowKey
\* or a user property P and a string s, returns exactly the entities whose P
\* is s.
C18_StringEqualityMatches ==
  \A P \in FilterProperties, str \in FilterStrings :
    (last.op = "queryTableEntities" /\ last.filter = Some(EqualsFilter(P, str)))
    => /\ last.result = "ok"
       /\ last.ret[1].entities =
            SelectSeq(EntitiesInKeyOrder, LAMBDA e : HasValue(e, P, str))

C20_BinaryLiteralAfterOperator ==
  \A b \in BinaryLiterals :
    /\ (/\ last.op \in {"queryTable", "queryTableEntities"}
        /\ last.filter = Some(<<"x", " ", "e", "q", " ">> \o b))
       => last.result = "QueryConditionInvalid"
    /\ (/\ last.op \in {"queryTable", "queryTableEntities"}
        /\ last.filter = Some(b))
       => last.result # "QueryConditionInvalid"
    /\ (last.op = "queryTableEntities" /\ last.filter = Some(b \o <<" ", "e", "q", " ", "x">>))
       => last.result # "QueryConditionInvalid"

\* C21: beginBatchTransaction fails with the transaction-overlap error exactly
\* when one of the two undo logs holds an entry, and whether it fails or not
\* it changes neither log, no table and no entity.
C21_BeginTestsLogs ==
  last.op = "beginBatchTransaction"
  => /\ last.sameData
     /\ last.sameLogs
     /\ last.result \in {"ok", "Transaction Overlapp!"}
     /\ last.result = "Transaction Overlapp!"
          <=> \/ transactionRollbackTheseEntities # <<>>
              \/ transactionDeleteTheseEntities # <<>>

\* A begin has failed while only the log of inserted entities held an entry,
\* and the entity that entry names is still stored.
C21_Witness_OverlapOnInsertLog ==
  /\ last.op = "beginBatchTransaction"
  /\ last.result = "Transaction Overlapp!"
  /\ transactionRollbackTheseEntities = <<>>
  /\ transactionDeleteTheseEntities # <<>>
  /\ db[getTableCollectionName("a", "c")].data # {}

\* C22: deleteTableEntity of an existing entity, with both keys given,
\* succeeds exactly when etag is "*" or is, character for character, the
\* stored eTag; otherwise it fails with precondition-failed and the entity
\* stays stored; when it succeeds the entity is absent afterwards and, with a
\* batchId other than "", its pre-image has been appended to the rollback log.
C22_DeleteRule ==
  \A partitionKey \in DeleteInputs.partitionKeys, rowKey \in DeleteInputs.rowKeys,
     etag \in DeleteInputs.etags, batchId \in DeleteInputs.batchIds :
    LET name == getTableCollectionName("a", "c")
        doc == findOne(Store, name, partitionKey, rowKey)
        s == deleteTableEntity(Store, "c", "a", partitionKey, rowKey, etag, batchId)
    IN doc # Null
       => IF etag = Star \/ etag = heap[doc].eTag
          THEN /\ s.err = ""
               /\ findOne(s, name, partitionKey, rowKey) = Null
               /\ batchId # ""
                    => LogValues(s, s.rollback)
                         = Append(LogValues(Store, Store.rollback), EntityOf(heap[doc]))
          ELSE /\ s.err = "PreconditionFailed"
               /\ Content(s) = Content(Store)

\* A delete in a batch has succeeded with the stored eTag as its etag, and the
\* rollback log ends with the entity it removed.
C22_Witness_DeleteInBatch ==
  /\ last.op = "deleteTableEntity"
  /\ last.result = "ok"
  /\ last.stored # None
  /\ last.ifMatch = Some(last.stored[1].eTag)
  /\ active # {}
  /\ transactionRollbackTheseEntities # <<>>
  /\ EntityOf(heap[transactionRollbackTheseEntities[Len(transactionRollbackTheseEntities)]])
       = last.stored[1]
  /\ StoredByLast = {}

\* The documents the store holds under the key of the last call.
CellsByLast ==
  { d \in db[getTableCollectionName(last.account, last.table)].data :
      /\ heap[d].PartitionKey = last.PartitionKey
      /\ heap[d].RowKey = last.RowKey }

\* C23: on a table that exists, insertOrUpdateTableEntity and
\* insertOrMergeTableEntity with ifMatch absent or "*" succeed whether or not
\* the entity exists, and exactly one entity is then stored under the
\* supplied key; with any other ifMatch and the entity absent they fail with
\* entity-not-found and insert nothing.
C23_UpsertRule ==
  (/\ last.op \in {"insertOrUpdateTableEntity", "insertOrMergeTableEntity"}
   /\ last.registered)
  => /\ last.ifMatch \in {None, Some(Star)}
          => /\ last.result = "ok"
             /\ Cardinality(CellsByLast) = 1
     /\ (last.ifMatch \notin {None, Some(Star)} /\ ~last.existed)
          => /\ last.result = "EntityNotFound"
             /\ last.sameData

\* The pages of a chain of queryTable calls, each passing the cursor the one
\* before returned.
RECURSIVE TablePages(_, _, _, _, _)
TablePages(account, filter, top, nextTable, calls) ==
  LET r == queryTable(Store, account, [filter |-> filter, top |-> top], nextTable).ret[1]
  IN IF r.nextTableName = Undefined \/ calls = 1 THEN <<r>>
     ELSE <<r>> \o TablePages(account, filter, top, r.nextTableName, calls - 1)

\* The names of the tables of an account that a filter of RegistryInputs
\* matches, in ascending order.
MatchingTables(account, filter) ==
  SetToSeq({ t \in Tables : /\ findTable(tablesCollection, account, t) # <<>>
                            /\ filter = Some(NotNamedC) => t # "c" },
           LAMBDA t, u : Less(Units(t), Units(u)))

\* C24: with a positive top k, queryTable returns at most k tables, all of
\* the account, and a cursor exactly when more than k tables match; the
\* cursor is the name of the first table not returned, and the pages of a
\* chain of calls, each passing the cursor the one before returned, list
\* every matching table exactly once in ascending order.
C24_TablePagesCoverRegistry ==
  \A account \in RegistryInputs.accounts, filter \in RegistryInputs.filters,
     k \in RegistryInputs.tops :
    LET all == MatchingTables(account, filter)
        pages == TablePages(account, filter, k, Undefined, Len(all) + 1)
        lists == [i \in 1..Len(pages) |->
                    [j \in 1..Len(pages[i].tables) |-> pages[i].tables[j].table]]
        before(i) == Len(Flatten(SubSeq(lists, 1, i - 1)))
    IN /\ \A i \in 1..Len(pages) :
            /\ Len(lists[i]) <= k
            /\ \A j \in 1..Len(pages[i].tables) : pages[i].tables[j].account = account
            /\ (pages[i].nextTableName # Undefined) <=> (Len(all) - before(i) > k)
            /\ pages[i].nextTableName # Undefined
                 => pages[i].nextTableName = all[before(i) + k + 1]
       /\ Flatten(lists) = all

\* A query with top 1 has returned the second of three pages: it was given a
\* cursor and has returned another, while the other account has a table too.
C24_Witness_MiddlePage ==
  /\ last.op = "queryTable"
  /\ last.top = 1
  /\ last.nextTable # Undefined
  /\ last.ret # <<>>
  /\ Len(last.ret[1].tables) = 1
  /\ last.ret[1].nextTableName # Undefined
  /\ \E a \in Accounts \ {last.account}, t \in Tables :
       findTable(tablesCollection, a, t) # <<>>

\* C25: immediately after a successful createTable(a, t) the entity
\* collection of (a, t) exists and is empty, whatever a collection of that
\* name held before: no entity stored before the call is found through
\* (a, t).
C25_CreatedTableIsEmpty ==
  (last.op = "createTable" /\ last.result = "ok")
  => /\ db[getTableCollectionName(last.account, last.table)] = NewCollection
     /\ \A e \in last.found :
          queryTableEntitiesWithPartitionAndRowKey(
            Store, last.table, last.account, e.PartitionKey, e.RowKey).ret = <<>>
     /\ queryTableEntities(Store, last.account, last.table,
                           [filter |-> None, top |-> 0], None, None).ret
          = <<[entities |-> <<>>, nextPartitionKey |-> None, nextRowKey |-> None]>>

\* A createTable has succeeded on a name under which an entity was stored.
C25_Witness_StaleCollectionDropped ==
  /\ last.op = "createTable"
  /\ last.result = "ok"
  /\ last.found # {}

\* The errors of the entity operations.
EntityErrors ==
  {"TableNotExist", "EntityAlreadyExist", "EntityNotFound", "PreconditionFailed",
   "PropertiesNeedValue", "QueryConditionInvalid"}

\* C26: an entity operation that fails with one of these errors leaves the
\* table registry, every entity collection and both undo logs as they were
\* before the call.
C26_FailureChangesNothing ==
  (/\ last.op \in EntityOps \cup {"queryTableEntities"}
   /\ last.result \in EntityErrors)
  => /\ last.sameData
     /\ last.sameLogs

\* C27: an upsert called with ifMatch absent succeeds however the calls made
\* without waiting for it fall between its probe and what follows its await
\* (other upserts, inserts and deletes of the same key): it fails neither with
\* entity-already-exists nor with entity-not-found, and when it has ended
\* exactly one entity is stored under its key.
C27_UpsertIsAtomic ==
  (/\ last.op \in {"insertOrUpdateTableEntity", "insertOrMergeTableEntity"}
   /\ last.ifMatch = None
   /\ last.result # "await")
  => /\ last.result = "ok"
     /\ Cardinality(CellsByLast) = 1

\* The stores that one call addressed to (account, table) can leave: a
\* createTable, a deleteTable, an entity write or an endBatchTransaction.
AddressedTo(account, table) ==
  {createTable(Store, account, table), deleteTable(Store, table, account)}
    \cup { insertTableEntity(Store, table, account, e, "") : e \in TableInputs.entities }
    \cup { insertOrUpdateTableEntity(Store, table, account, e, None, "") :
             e \in TableInputs.entities }
    \cup { insertOrMergeTableEntity(Store, table, account, e, None, "") :
             e \in TableInputs.entities }
    \cup { deleteTableEntity(Store, table, account, pk, rk, Star, "") :
             pk \in TableInputs.partitionKeys, rk \in TableInputs.rowKeys }
    \cup UNION { endBatchTransaction(Store, account, table, "b1", succeeded) :
                   succeeded \in BOOLEAN }

\* C28: for two distinct pairs of account and table, no createTable,
\* deleteTable, entity write or endBatchTransaction addressed to one pair
\* changes the set of entities stored for the other or the existence of its
\* entity collection.
C28_TablesAreIsolated ==
  \A p, q \in Accounts \X Tables :
    p # q
    => \A s \in AddressedTo(p[1], p[2]) :
         Content(s)[getTableCollectionName(q[1], q[2])]
           = Content(Store)[getTableCollectionName(q[1], q[2])]

============================================================================
